---- MODULE Spec2Model ----
(***************************************************************************)
(* A model of keylime's event-log checking package (keylime/elchecking):   *)
(* the Test combinators of tests.py, the policy registry of policies.py,   *)
(* the NextGen2 policy compiler of nextgen2.py, bin_to_json of             *)
(* conversions.py and the event decoders of enrich.py.                     *)
(***************************************************************************)
EXTENDS Integers, Sequences, FiniteSets, TLC

VARIABLES
    tree,       \* the compiled Test tree shared by every evaluation call
    heap,       \* Python list objects (the accumulators): identity -> contents
    calls,      \* evaluation calls of tree.why_not, each with its own Globals
    registry,   \* policies._registry: policy name -> policy
    drv,        \* one call of policies.compile / policies.evaluate
    conv,       \* one call of conversions.bin_to_json and its file system
    enr,        \* one call of enrich.enrich(log) and the log it rewrites
    dec         \* one call of a decoder of enrich.py on a byte string

vars == <<tree, heap, calls, registry, drv, conv, enr, dec>>

(***************************************************************************)
(* Bounds of the model.                                                    *)
(***************************************************************************)
MaxLog == 2         \* longest event list of a single evaluation call
NumCalls == 2       \* concurrent evaluation calls of one tree
MaxConcLog == 1     \* longest event list of a concurrent evaluation call

(***************************************************************************)
(* tests.py: Data, the structure corresponding to JSON.  Every value is    *)
(* tagged with its Python type.  A dict keeps its items in insertion       *)
(* order.  DRef is a list object that tests mutate in place (an            *)
(* accumulator): its contents live in the heap under its identity.         *)
(***************************************************************************)
DInt(n) == [t |-> "int", v |-> n]
DStr(s) == [t |-> "str", v |-> s]
DNone == [t |-> "none", v |-> 0]
DList(s) == [t |-> "list", v |-> s]
DDict(items) == [t |-> "dict", v |-> items]
DRef(id) == [t |-> "ref", v |-> id]
Item(k, d) == [k |-> k, d |-> d]

\* isinstance(subject, dict), isinstance(subject, list)
IsDict(subject) == subject.t = "dict"
IsList(subject) == subject.t \in {"list", "ref"}

\* name in subject, subject[name]
HasKey(subject, name) == \E i \in 1..Len(subject.v) : subject.v[i].k = name
GetItem(subject, name) ==
    subject.v[CHOOSE i \in 1..Len(subject.v) : subject.v[i].k = name].d

\* the elements of a list, read through the heap when it is a list object
Elems(st, subject) == IF subject.t = "ref" THEN st.h[subject.v] ELSE subject.v

\* hash(value): lists and dicts are unhashable
Hashable(d) == d.t \notin {"list", "ref", "dict"}

(***************************************************************************)
(* A reason is a Python string, kept as the sequence of its pieces: the    *)
(* literal text of the f-string and the values rendered into it.  The      *)
(* empty string is the empty sequence.                                     *)
(***************************************************************************)
Txt(s) == [t |-> "txt", v |-> s]
Rendered(st, d) == [t |-> "repr", v |-> IF d.t = "ref" THEN DList(st.h[d.v]) ELSE d]
Pass == <<>>

\* The outcome of one why_not call: the reason returned or the exception
\* raised, and the evaluation state (Globals, heap, visits) it leaves.
Ret(reason, st) == [reason |-> reason, exc |-> "", st |-> st]
Raise(exc, st) == [reason |-> Pass, exc |-> exc, st |-> st]

\* globals[name] = value
SetItem(g, name, value) ==
    [n \in DOMAIN g \cup {name} |-> IF n = name THEN value ELSE g[n]]

\* [] : a new list object, owned by the evaluation that creates it
NewList(st) ==
    <<st.me, 1 + Cardinality({id \in DOMAIN st.h : id[1] = st.me})>>

(***************************************************************************)
(* tests.py: the Test classes.  A Test is the record of the fields its     *)
(* constructor sets; why_not reads them and never assigns one.             *)
(***************************************************************************)
AcceptAll == [kind |-> "AcceptAll"]
RejectAll(why) == [kind |-> "RejectAll", why |-> why]
And(tests) == [kind |-> "And", tests |-> tests]
Or(tests) == [kind |-> "Or", tests |-> tests]
Dispatcher(key_names, tests) ==
    [kind |-> "Dispatcher", key_names |-> key_names, tests |-> tests]
KeyTest(key_vals, test) == [key |-> key_vals, test |-> test]
FieldTest(field_name, field_test, show_name) ==
    [kind |-> "FieldTest", field_name |-> field_name,
     field_test |-> field_test, show_name |-> show_name]
FieldsTest(fields) ==
    And([i \in 1..Len(fields) |-> FieldTest(fields[i].k, fields[i].d, TRUE)])
IterateTest(elt_test, show_elt) ==
    [kind |-> "IterateTest", elt_test |-> elt_test, show_elt |-> show_elt]
TupleTest(tests) == [kind |-> "TupleTest", tests |-> tests]
DelayedField(field_names, field_name) ==
    [kind |-> "DelayedField", delayer |-> field_names, field_name |-> field_name]
DelayInitializer(field_names) ==
    [kind |-> "DelayInitializer", delayer |-> field_names]
DelayToFields(fields_test, field_names) ==
    [kind |-> "DelayToFields", field_names |-> field_names,
     fields_test |-> fields_test]
IntEqual(expected) == [kind |-> "IntEqual", expected |-> expected]
StringEqual(expected) == [kind |-> "StringEqual", expected |-> expected]

\* A variant that compares the owner only.
SignatureTest_owner(owner, data) ==
    And(<<FieldTest("SignatureOwner", StringEqual(owner), TRUE)>>)

\* SignatureTest(And), SignatureSetMember(Or), KeySubset(IterateTest):
\* subclasses whose constructors only build the tests of the class they
\* extend
SignatureTest(owner, data) ==
    And(<<FieldTest("SignatureOwner", StringEqual(owner), TRUE),
          FieldTest("SignatureData", StringEqual(data), TRUE)>>)
SignatureSetMember(sigs) ==
    Or([i \in 1..Len(sigs) |-> SignatureTest(sigs[i].owner, sigs[i].data)])
KeySubset(sig_type, keys) ==
    IterateTest(And(<<FieldTest("SignatureType", StringEqual(sig_type), TRUE),
                      FieldTest("Keys", IterateTest(SignatureSetMember(keys), FALSE),
                                TRUE)>>),
                FALSE)

\* or_else = None
NoTest == [kind |-> "None"]

\* A variant that keeps, for every algorithm, only the hash given last.
DigestTest_last_hash(good_digests_list, or_else) ==
    [kind |-> "DigestTest",
     good_digests |->
        [alg \in {good_digests_list[i].alg : i \in 1..Len(good_digests_list)} |->
            LET given == {j \in 1..Len(good_digests_list) : good_digests_list[j].alg = alg}
            IN  {good_digests_list[CHOOSE j \in given : \A k \in given : k <= j].hash}],
     or_else |-> or_else]

\* DigestTest.__init__: good_digests maps every algorithm of the given
\* {alg: hash} mappings to the set of the hashes given for it
DigestTest(good_digests_list, or_else) ==
    [kind |-> "DigestTest",
     good_digests |->
        [alg \in {good_digests_list[i].alg : i \in 1..Len(good_digests_list)} |->
            {good_digests_list[i].hash :
                i \in {j \in 1..Len(good_digests_list) : good_digests_list[j].alg = alg}}],
     or_else |-> or_else]

\* ', '.join(reasons)
RECURSIVE Join(_)
Join(reasons) ==
    IF Len(reasons) = 0 THEN <<>>
    ELSE IF Len(reasons) = 1 THEN reasons[1]
    ELSE reasons[1] \o <<Txt(", ")>> \o Join(Tail(reasons))

RECURSIVE why_not(_, _, _)

AcceptAll_why_not(self, st, subject) == Ret(Pass, st)

RejectAll_why_not(self, st, subject) == Ret(self.why, st)

\* A variant that runs every sub-test and returns the first failure.
RECURSIVE And_loop_all(_, _, _, _)
And_loop_all(self, i, st, subject) ==
    IF i > Len(self.tests) THEN Ret(Pass, st)
    ELSE LET r == why_not(self.tests[i], st, subject)
             rest == And_loop_all(self, i + 1, r.st, subject)
         IN  IF r.exc # "" THEN r
             ELSE IF r.reason # Pass THEN Ret(r.reason, rest.st)
             ELSE rest

RECURSIVE And_loop(_, _, _, _)
And_loop(self, i, st, subject) ==
    IF i > Len(self.tests) THEN Ret(Pass, st)
    ELSE LET r == why_not(self.tests[i], st, subject) IN
         IF r.exc # "" \/ r.reason # Pass THEN r
         ELSE And_loop(self, i + 1, r.st, subject)

And_why_not(self, st, subject) == And_loop(self, 1, st, subject)

\* A variant that runs every sub-test and passes when one of them passed.
RECURSIVE Or_loop_all(_, _, _, _, _)
Or_loop_all(self, i, reasons, st, subject) ==
    IF i > Len(self.tests)
    THEN Ret(<<Txt("[")>> \o Join(reasons) \o <<Txt("]")>>, st)
    ELSE LET r == why_not(self.tests[i], st, subject)
             rest == Or_loop_all(self, i + 1, Append(reasons, r.reason), r.st, subject)
         IN  IF r.exc # "" THEN r
             ELSE IF r.reason = Pass THEN Ret(Pass, rest.st)
             ELSE rest

RECURSIVE Or_loop(_, _, _, _, _)
Or_loop(self, i, reasons, st, subject) ==
    IF i > Len(self.tests)
    THEN Ret(<<Txt("[")>> \o Join(reasons) \o <<Txt("]")>>, st)
    ELSE LET r == why_not(self.tests[i], st, subject) IN
         IF r.exc # "" \/ r.reason = Pass THEN r
         ELSE Or_loop(self, i + 1, Append(reasons, r.reason), r.st, subject)

Or_why_not(self, st, subject) ==
    IF Len(self.tests) = 0
    THEN Ret(<<Txt("does not pass empty disjunction")>>, st)
    ELSE Or_loop(self, 1, <<>>, st, subject)

\* the first key name the subject lacks, 0 when it has them all
MissingKey(self, subject) ==
    LET missing == {i \in 1..Len(self.key_names) :
                        ~HasKey(subject, self.key_names[i])}
    IN  IF missing = {} THEN 0
        ELSE CHOOSE i \in missing : \A j \in missing : i <= j

Dispatcher_why_not(self, st, subject) ==
    IF ~IsDict(subject) THEN Ret(<<Txt("is not a dict")>>, st)
    ELSE IF MissingKey(self, subject) # 0
    THEN Ret(<<Txt("has no"), Txt(self.key_names[MissingKey(self, subject)])>>, st)
    ELSE LET key_vals == [i \in 1..Len(self.key_names) |->
                              GetItem(subject, self.key_names[i])]
             hits == {i \in 1..Len(self.tests) : self.tests[i].key = key_vals}
         IN  IF \E i \in 1..Len(key_vals) : ~Hashable(key_vals[i])
             THEN Raise("TypeError", st)
             ELSE IF hits = {}
             THEN Ret(<<Txt("has unexpected"), Txt("combination")>>
                      \o [i \in 1..Len(key_vals) |-> Rendered(st, key_vals[i])], st)
             ELSE why_not(self.tests[CHOOSE i \in hits : TRUE].test, st, subject)

FieldTest_why_not(self, st, subject) ==
    IF ~IsDict(subject) THEN Ret(<<Txt("is not a dict")>>, st)
    ELSE IF ~HasKey(subject, self.field_name)
    THEN Ret(<<Txt("has no"), Txt(self.field_name), Txt("field")>>, st)
    ELSE LET r == why_not(self.field_test, st, GetItem(subject, self.field_name)) IN
         IF r.exc = "" /\ r.reason # Pass /\ self.show_name
         THEN Ret(<<Txt(self.field_name)>> \o r.reason, r.st)
         ELSE r

\* A variant that applies elt_test to every element and returns the
\* first failure.
RECURSIVE IterateTest_loop_all(_, _, _, _)
IterateTest_loop_all(self, idx, st, subject) ==
    IF idx > Len(Elems(st, subject)) THEN Ret(Pass, st)
    ELSE LET elt == Elems(st, subject)[idx]
             r == why_not(self.elt_test, st, elt)
             rest == IterateTest_loop_all(self, idx + 1, r.st, subject)
         IN  IF r.exc # "" THEN r
             ELSE IF r.reason = Pass THEN rest
             ELSE IF self.show_elt
             THEN Ret(<<Rendered(r.st, elt)>> \o r.reason, rest.st)
             ELSE Ret(<<Txt("["), Rendered(r.st, DInt(idx - 1)), Txt("]")>>
                      \o r.reason, rest.st)

RECURSIVE IterateTest_loop(_, _, _, _)
IterateTest_loop(self, idx, st, subject) ==
    IF idx > Len(Elems(st, subject)) THEN Ret(Pass, st)
    ELSE LET elt == Elems(st, subject)[idx]
             r == why_not(self.elt_test, st, elt)
         IN  IF r.exc # "" THEN r
             ELSE IF r.reason = Pass
             THEN IterateTest_loop(self, idx + 1, r.st, subject)
             ELSE IF self.show_elt
             THEN Ret(<<Rendered(r.st, elt)>> \o r.reason, r.st)
             ELSE Ret(<<Txt("["), Rendered(r.st, DInt(idx - 1)), Txt("]")>>
                      \o r.reason, r.st)

IterateTest_why_not(self, st, subject) ==
    IF ~IsList(subject) THEN Ret(<<Txt("is not a list")>>, st)
    ELSE IterateTest_loop(self, 1, st, subject)

RECURSIVE TupleTest_loop(_, _, _, _)
TupleTest_loop(self, idx, st, subject) ==
    IF idx > Len(self.tests) THEN Ret(Pass, st)
    ELSE LET r == why_not(self.tests[idx], st, Elems(st, subject)[idx]) IN
         IF r.exc # "" THEN r
         ELSE IF r.reason # Pass
         THEN Ret(<<Txt("["), Rendered(r.st, DInt(idx - 1)), Txt("]")>>
                  \o r.reason, r.st)
         ELSE TupleTest_loop(self, idx + 1, r.st, subject)

TupleTest_why_not(self, st, subject) ==
    IF ~IsList(subject) THEN Ret(<<Txt("is not a list")>>, st)
    ELSE IF Len(Elems(st, subject)) # Len(self.tests)
    THEN Ret(<<Txt(" has length"), Rendered(st, DInt(Len(Elems(st, subject)))),
               Txt("instead of"), Rendered(st, DInt(Len(self.tests)))>>, st)
    ELSE TupleTest_loop(self, 1, st, subject)

\* A variant that puts the subject in front of the list.
DelayedField_why_not_prepend(self, st, subject) ==
    IF self.field_name \notin DOMAIN st.g THEN Raise("KeyError", st)
    ELSE LET val_list == st.g[self.field_name] IN
         IF ~IsList(val_list)
         THEN Ret(<<Txt("malformed test: global"), Txt(self.field_name),
                    Txt("is not a list")>>, st)
         ELSE Ret(Pass, [st EXCEPT !.h[val_list.v] = <<subject>> \o @])

\* DelayedField.why_not: appends the subject to the list globals holds
\* under the field name.
DelayedField_why_not(self, st, subject) ==
    IF self.field_name \notin DOMAIN st.g THEN Raise("KeyError", st)
    ELSE LET val_list == st.g[self.field_name] IN
         IF ~IsList(val_list)
         THEN Ret(<<Txt("malformed test: global"), Txt(self.field_name),
                    Txt("is not a list")>>, st)
         ELSE Ret(Pass, [st EXCEPT !.h[val_list.v] = Append(@, subject)])

\* A variant in which the delayer keeps one list per field and hands that
\* list to every evaluation.
RECURSIVE initialize_globals_shared(_, _, _)
initialize_globals_shared(field_names, i, st) ==
    IF i > Len(field_names) THEN st
    ELSE LET id == <<0, i>> IN
         initialize_globals_shared(field_names, i + 1,
             [st EXCEPT !.g = SetItem(@, field_names[i], DRef(id)),
                        !.h = IF id \in DOMAIN @ THEN @ ELSE (id :> <<>>) @@ @])

\* A variant that keeps the list a field name already holds in globals:
\* globals.setdefault(field_name, [])
RECURSIVE initialize_globals_setdefault(_, _, _)
initialize_globals_setdefault(field_names, i, st) ==
    IF i > Len(field_names) THEN st
    ELSE LET id == NewList(st) IN
         initialize_globals_setdefault(field_names, i + 1,
             IF field_names[i] \in DOMAIN st.g THEN st
             ELSE [st EXCEPT !.g = SetItem(@, field_names[i], DRef(id)),
                             !.h = (id :> <<>>) @@ @])

\* DelayToFields.initialize_globals: a new empty list under every field name
RECURSIVE initialize_globals(_, _, _)
initialize_globals(field_names, i, st) ==
    IF i > Len(field_names) THEN st
    ELSE LET id == NewList(st) IN
         initialize_globals(field_names, i + 1,
             [st EXCEPT !.g = SetItem(@, field_names[i], DRef(id)),
                        !.h = (id :> <<>>) @@ @])

DelayInitializer_why_not(self, st, subject) ==
    Ret(Pass, initialize_globals(self.delayer, 1, st))

\* delayed = dict(); delayed[field_name] = globals.get(field_name, None)
RECURSIVE Delayed(_, _, _, _)
Delayed(field_names, i, st, delayed) ==
    IF i > Len(field_names) THEN delayed
    ELSE LET fn == field_names[i]
             val == IF fn \in DOMAIN st.g THEN st.g[fn] ELSE DNone
         IN  Delayed(field_names, i + 1, st,
                 IF \E j \in 1..Len(delayed) : delayed[j].k = fn
                 THEN delayed ELSE Append(delayed, Item(fn, val)))

DelayToFields_why_not(self, st, subject) ==
    why_not(self.fields_test, st, DDict(Delayed(self.field_names, 1, st, <<>>)))

IntEqual_why_not(self, st, subject) ==
    IF subject.t # "int" THEN Ret(<<Txt("is not a int")>>, st)
    ELSE IF subject = DInt(self.expected) THEN Ret(Pass, st)
    ELSE Ret(<<Txt("is not"), Rendered(st, DInt(self.expected))>>, st)

StringEqual_why_not(self, st, subject) ==
    IF subject.t # "str" THEN Ret(<<Txt("is not a str")>>, st)
    ELSE IF subject = DStr(self.expected) THEN Ret(Pass, st)
    ELSE Ret(<<Txt("is not"), Rendered(st, DStr(self.expected))>>, st)

\* f'has no digest approved by {self.good_digests}'
NoDigestApproved(self) ==
    <<Txt("has no digest approved by"), [t |-> "good_digests", v |-> self.good_digests]>>

\* the loop of DigestTest.why_not over the entries of Digests: "" as soon as
\* an entry has an approved hash, the reason of the first malformed entry
\* met before that, "none" when the loop ends
RECURSIVE DigestTest_loop(_, _, _, _)
DigestTest_loop(self, idx, st, digest_list) ==
    IF idx > Len(digest_list) THEN <<Txt("none")>>
    ELSE LET subject_digest == digest_list[idx]
             index == Rendered(st, DInt(idx - 1))
         IN
         IF ~IsDict(subject_digest)
         THEN <<Txt("Digests["), index, Txt("] is"), Rendered(st, subject_digest),
                Txt(", not a dict")>>
         ELSE IF ~HasKey(subject_digest, "AlgorithmId")
         THEN <<Txt("digest"), index, Txt("has no AlgorithmId")>>
         ELSE IF GetItem(subject_digest, "AlgorithmId").t # "str"
         THEN <<Txt("Digests["), index, Txt("].AlgorithmId is"),
                Rendered(st, GetItem(subject_digest, "AlgorithmId")), Txt(", not a str")>>
         ELSE IF ~HasKey(subject_digest, "Digest")
         THEN <<Txt("digest"), index, Txt("has no Digest")>>
         ELSE IF GetItem(subject_digest, "Digest").t # "str"
         THEN <<Txt("Digests["), index, Txt("].Digest is"),
                Rendered(st, GetItem(subject_digest, "Digest")), Txt(", not a str")>>
         ELSE LET alg == GetItem(subject_digest, "AlgorithmId").v
                  hash == GetItem(subject_digest, "Digest").v
              IN  IF alg \in DOMAIN self.good_digests /\ hash \in self.good_digests[alg]
                  THEN Pass
                  ELSE DigestTest_loop(self, idx + 1, st, digest_list)

\* A variant that evaluates or_else before it looks at the Digests.
DigestTest_why_not_eager(self, st, subject) ==
    IF ~IsDict(subject) THEN Ret(<<Txt("is not a dict")>>, st)
    ELSE IF ~HasKey(subject, "Digests") THEN Ret(<<Txt("has no Digests")>>, st)
    ELSE IF ~IsList(GetItem(subject, "Digests"))
    THEN Ret(<<Txt("Digests is not a list")>>, st)
    ELSE LET r == IF self.or_else = NoTest THEN Ret(Pass, st)
                  ELSE why_not(self.or_else, st, subject)
             found == DigestTest_loop(self, 1, st, Elems(st, GetItem(subject, "Digests")))
         IN  IF found # <<Txt("none")>> THEN Ret(found, r.st)
             ELSE IF self.or_else = NoTest THEN Ret(NoDigestApproved(self), st)
             ELSE IF r.exc # "" \/ r.reason = Pass THEN r
             ELSE Ret(r.reason \o <<Txt(" and")>> \o NoDigestApproved(self), r.st)

DigestTest_why_not(self, st, subject) ==
    IF ~IsDict(subject) THEN Ret(<<Txt("is not a dict")>>, st)
    ELSE IF ~HasKey(subject, "Digests") THEN Ret(<<Txt("has no Digests")>>, st)
    ELSE IF ~IsList(GetItem(subject, "Digests"))
    THEN Ret(<<Txt("Digests is not a list")>>, st)
    ELSE LET found == DigestTest_loop(self, 1, st, Elems(st, GetItem(subject, "Digests"))) IN
         IF found # <<Txt("none")>> THEN Ret(found, st)
         ELSE IF self.or_else = NoTest THEN Ret(NoDigestApproved(self), st)
         ELSE LET r == why_not(self.or_else, st, subject) IN
              IF r.exc # "" \/ r.reason = Pass THEN r
              ELSE Ret(r.reason \o <<Txt(" and")>> \o NoDigestApproved(self), r.st)

\* The evaluation state after entering test.why_not: st.visits records, for
\* every accumulator name, the subjects on which an appender of that name was
\* entered since the name was last initialized.
Visit(test, st, subject) ==
    IF test.kind = "DelayedField"
    THEN [st EXCEPT !.visits = Append(@, [name |-> test.field_name, subject |-> subject])]
    ELSE IF test.kind = "DelayInitializer"
    THEN [st EXCEPT !.visits = SelectSeq(@, LAMBDA e :
                        \A i \in 1..Len(test.delayer) : test.delayer[i] # e.name)]
    ELSE st

\* test.why_not(globals, subject): Python's dispatch on the class of the test
why_not(test, st0, subject) ==
    LET st == Visit(test, st0, subject) IN
    CASE test.kind = "AcceptAll" -> AcceptAll_why_not(test, st, subject)
      [] test.kind = "RejectAll" -> RejectAll_why_not(test, st, subject)
      [] test.kind = "And" -> And_why_not(test, st, subject)
      [] test.kind = "Or" -> Or_why_not(test, st, subject)
      [] test.kind = "Dispatcher" -> Dispatcher_why_not(test, st, subject)
      [] test.kind = "FieldTest" -> FieldTest_why_not(test, st, subject)
      [] test.kind = "IterateTest" -> IterateTest_why_not(test, st, subject)
      [] test.kind = "TupleTest" -> TupleTest_why_not(test, st, subject)
      [] test.kind = "DelayedField" -> DelayedField_why_not(test, st, subject)
      [] test.kind = "DelayInitializer" -> DelayInitializer_why_not(test, st, subject)
      [] test.kind = "DelayToFields" -> DelayToFields_why_not(test, st, subject)
      [] test.kind = "IntEqual" -> IntEqual_why_not(test, st, subject)
      [] test.kind = "StringEqual" -> StringEqual_why_not(test, st, subject)
      [] test.kind = "DigestTest" -> DigestTest_why_not(test, st, subject)

(***************************************************************************)
(* A tree built as nextgen2.py builds its tree: a Dispatcher on            *)
(* (PCRIndex, EventType) whose branches reach the appenders of one         *)
(* DelayToFields, iterated over the 'events' of the subject, between the   *)
(* delay initializer and the delayed test.                                 *)
(***************************************************************************)
Names == <<"k", "m">>

Predicate ==
    FieldsTest(<<Item("k", TupleTest(<<StringEqual("x")>>)),
                 Item("m", IterateTest(StringEqual("z"), FALSE))>>)

Delay == DelayToFields(Predicate, Names)

EventDispatcher ==
    Dispatcher(<<"PCRIndex", "EventType">>, <<
        KeyTest(<<DInt(0), DStr("A")>>,
                FieldTest("Event", DelayedField(Names, "k"), TRUE)),
        KeyTest(<<DInt(0), DStr("B")>>,
                FieldTest("Event", Or(<<StringEqual("y"),
                                        DelayedField(Names, "m")>>), TRUE)),
        KeyTest(<<DInt(0), DStr("C")>>,
                And(<<RejectAll(<<Txt("is rejected")>>),
                      DelayedField(Names, "k")>>)),
        KeyTest(<<DInt(1), DStr("A")>>, AcceptAll)>>)

EventsTest == FieldTest("events", IterateTest(EventDispatcher, TRUE), FALSE)

TreeDelay == And(<<DelayInitializer(Names), EventsTest, Delay>>)
TreeNoInit == And(<<EventsTest, Delay>>)

\* The subjects: event lists as the enricher's JSON gives them.
Event(pcr, type, payload) ==
    DDict(<<Item("PCRIndex", pcr), Item("EventType", DStr(type)),
            Item("Event", DStr(payload))>>)

Events ==
    {Event(DInt(0), "A", "x"), Event(DInt(0), "A", "z"),
     Event(DInt(0), "B", "y"), Event(DInt(0), "B", "z"),
     Event(DInt(0), "C", "x"), Event(DInt(1), "A", "x"),
     Event(DInt(2), "A", "x"), Event(DList(<<>>), "A", "x")}

ConcEvents ==
    {Event(DInt(0), "A", "x"), Event(DInt(0), "B", "z"), Event(DInt(1), "A", "x")}

SeqsUpTo(S, n) == UNION {[1..k -> S] : k \in 0..n}

Subject(log) == DDict(<<Item("events", DList(log))>>)

\* The Globals a call starts with: empty, holding a non-list under an
\* accumulator name, or holding the list a previous evaluation left there.
ScopeKinds == {"empty", "int", "stale"}

Scope0(kind, c) ==
    CASE kind = "empty" -> <<>>
      [] kind = "int" -> ("k" :> DInt(5))
      [] kind = "stale" -> ("k" :> DRef(<<c, 1>>))

Heap0(kind, c) ==
    IF kind = "stale" THEN (<<c, 1>> :> <<DStr("old")>>) ELSE <<>>

Call0(kind, log, c) ==
    [pc |-> "run", idx |-> 1, kind |-> kind, subject |-> Subject(log),
     scope |-> Scope0(kind, c), visits |-> <<>>, reason |-> Pass, exc |-> ""]

RECURSIVE HeapOf(_, _)
HeapOf(cs, ids) ==
    IF ids = {} THEN <<>>
    ELSE LET c == CHOOSE x \in ids : TRUE IN
         Heap0(cs[c].kind, c) @@ HeapOf(cs, ids \ {c})

\* The state of the components a specification leaves alone.
NoCalls == <<>>
NoDrv == [pc |-> "off"]
NoConv == [pc |-> "off"]
NoEnr == [pc |-> "off"]
NoDec == [pc |-> "off"]

InitEval(ids, kinds, events, maxlog, trees) ==
    /\ tree \in trees
    /\ \E ks \in [ids -> kinds], logs \in [ids -> SeqsUpTo(events, maxlog)] :
           calls = [c \in ids |-> Call0(ks[c], logs[c], c)]
    /\ heap = HeapOf(calls, ids)
    /\ registry = <<>>
    /\ drv = NoDrv
    /\ conv = NoConv
    /\ enr = NoEnr
    /\ dec = NoDec

\* The evaluation state call c hands to why_not: its own Globals, the heap.
EvalSt(c) ==
    [g |-> calls[c].scope, h |-> heap, me |-> c, visits |-> calls[c].visits]

\* What one iteration of the root And's loop makes of call c.
Stepped(call, i, r) ==
    [call EXCEPT !.scope = r.st.g, !.visits = r.st.visits, !.idx = i + 1,
                 !.reason = r.reason, !.exc = r.exc,
                 !.pc = IF r.exc # "" THEN "raised"
                        ELSE IF r.reason # Pass \/ i = Len(tree.tests) THEN "done"
                        ELSE "run"]

\* One iteration of the loop of tree.why_not(globals, subject) in call c:
\* the next sub-test is evaluated on the call's Globals and subject.
Step(c) ==
    /\ calls[c].pc = "run"
    /\ LET i == calls[c].idx IN
       IF i > Len(tree.tests)
       THEN /\ calls' = [calls EXCEPT ![c].pc = "done"]
            /\ heap' = heap
       ELSE LET r == why_not(tree.tests[i], EvalSt(c), calls[c].subject) IN
            /\ calls' = [calls EXCEPT ![c] = Stepped(@, i, r)]
            /\ heap' = r.st.h
    /\ UNCHANGED <<tree, registry, drv, conv, enr, dec>>

NextEval == \E c \in DOMAIN calls : Step(c)

\* One evaluation call at a time.
Init == InitEval({1}, ScopeKinds, Events, MaxLog, {TreeDelay, TreeNoInit})
Spec == Init /\ [][NextEval]_vars

\* Several evaluation calls of one tree, their steps interleaved.
InitConc == InitEval(1..NumCalls, {"empty"}, ConcEvents, MaxConcLog, {TreeDelay})
SpecConc == InitConc /\ [][NextEval]_vars

(***************************************************************************)
(* Evaluation calls: properties.                                           *)
(***************************************************************************)
\* Call c run alone for n iterations of the root loop, on a heap of its own.
RECURSIVE AloneRun(_, _)
AloneRun(c, n) ==
    IF n = 0
    THEN [call |-> [calls[c] EXCEPT !.pc = "run", !.idx = 1,
                                    !.scope = Scope0(calls[c].kind, c),
                                    !.visits = <<>>, !.reason = Pass, !.exc = ""],
          h |-> Heap0(calls[c].kind, c)]
    ELSE LET p == AloneRun(c, n - 1) IN
         IF p.call.pc # "run" THEN p
         ELSE LET r == why_not(tree.tests[p.call.idx],
                               [g |-> p.call.scope, h |-> p.h, me |-> c,
                                visits |-> p.call.visits], calls[c].subject)
              IN  [call |-> Stepped(p.call, p.call.idx, r), h |-> r.st.h]

\* tree.why_not(globals, subject) of call c evaluated alone, in one piece
AloneWhole(c) ==
    why_not(tree, [g |-> Scope0(calls[c].kind, c), h |-> Heap0(calls[c].kind, c),
                   me |-> c, visits |-> <<>>], calls[c].subject)

OwnLists(c, h) == {id \in DOMAIN h : id[1] = c}

\* C1: evaluation calls of one tree whose steps interleave do not interfere.
\* At every point each call's Globals, accumulators and outcome are those of
\* the same call run alone for as many steps; a finished call returns what
\* tree.why_not returns alone; every list a call's Globals name is the
\* call's own; and no list object belongs to the tree.
C1_ConcurrentCallsIsolated ==
    /\ \A c \in DOMAIN calls :
        LET a == AloneRun(c, calls[c].idx - 1) IN
        /\ calls[c] = a.call
        /\ OwnLists(c, heap) = DOMAIN a.h
        /\ \A id \in OwnLists(c, heap) : heap[id] = a.h[id]
        /\ \A n \in DOMAIN calls[c].scope :
               calls[c].scope[n].t = "ref" => calls[c].scope[n].v[1] = c
        /\ calls[c].pc # "run" =>
               /\ calls[c].reason = AloneWhole(c).reason
               /\ calls[c].exc = AloneWhole(c).exc
    /\ \A id \in DOMAIN heap : id[1] \in DOMAIN calls

\* Two calls are both between their iteration and their delayed test, each
\* having appended to its accumulators.
C1_Witness ==
    /\ \A c \in {1, 2} : calls[c].pc = "run" /\ calls[c].idx = 3
                         /\ Len(calls[c].visits) > 0
    /\ calls[1].subject # calls[2].subject

VisitsOf(c, name) ==
    LET mine == SelectSeq(calls[c].visits, LAMBDA e : e.name = name) IN
    [i \in 1..Len(mine) |-> mine[i].subject]

InitializerRan(c) ==
    tree.tests[1].kind = "DelayInitializer" /\ calls[c].idx > 1

\* the mapping from every field name to the values its appenders were given
VisitedFields(c) ==
    DDict([i \in 1..Len(Names) |-> Item(Names[i], DList(VisitsOf(c, Names[i])))])

\* C7: once the initializer has run, each accumulator holds exactly the
\* subjects its appenders were evaluated on, in evaluation order; an
\* appender passes on every subject and appends it; and the delayed test
\* returns what the caller's predicate returns on the mapping from every
\* field name to its accumulator.
C7_DelayOrdering ==
    \A c \in DOMAIN calls : InitializerRan(c) =>
        /\ \A i \in 1..Len(Names) :
            LET name == Names[i] IN
            /\ name \in DOMAIN calls[c].scope
            /\ calls[c].scope[name].t = "ref"
            /\ heap[calls[c].scope[name].v] = VisitsOf(c, name)
            /\ \A e \in Events :
                LET r == why_not(DelayedField(Names, name), EvalSt(c), e) IN
                /\ r.exc = "" /\ r.reason = Pass
                /\ r.st.h[calls[c].scope[name].v] = Append(VisitsOf(c, name), e)
        /\ (calls[c].idx = 3 /\ calls[c].pc = "run") =>
            LET r == why_not(tree.tests[3], EvalSt(c), calls[c].subject)
                expected == why_not(Predicate, EvalSt(c), VisitedFields(c))
            IN  r.reason = expected.reason /\ r.exc = expected.exc

\* The delayed test has run on a log of which one event reached an appender
\* and another one, dispatched elsewhere, did not.
C7_Witness ==
    /\ InitializerRan(1) /\ calls[1].idx = 4 /\ calls[1].pc = "done"
    /\ Len(calls[1].visits) = 1
    /\ Len(GetItem(calls[1].subject, "events").v) = 2

\* C8: no evaluation raises: why_not returns a string on every subject and
\* every scope.
C8_EvaluationNeverRaises == \A c \in DOMAIN calls : calls[c].pc # "raised"

(***************************************************************************)
(* policies.py and nextgen2.py: the policy registry, compile and evaluate. *)
(***************************************************************************)
\* What a Python call gives its caller: a value, or an exception.
Returns(value) == [exc |-> "", value |-> value]
Raises(exc) == [exc |-> exc, value |-> DNone]

\* The values compile can return: a str, a Test object, the closure of
\* AcceptAll.compile.
PyStr(reason) == [t |-> "str", v |-> reason]
PyTest(test) == [t |-> "Test", v |-> test]
PyFunction(name) == [t |-> "function", v |-> name]

\* _registry once the package is imported: policies.py registers
\* accept-all, nextgen2.py registers nextgen2.
Registry0 == ("accept-all" :> "AcceptAll") @@ ("nextgen2" :> "NextGen2")

\* register(name, policy)
register(reg, name, policy) == SetItem(reg, name, policy)

\* the parameters NextGen2.compile requires, in the order it looks for them
Required ==
    <<"s_crtm", "post_code", "pk", "kek", "db", "device_drivers", "shim",
      "grub", "runs">>

ParamKeys == {Required[i] : i \in 1..Len(Required)} \cup {"moklist"}

\* an intended state holding the given keys, each with a well-formed value
ParamValue(key) ==
    IF key \in {"pk", "kek", "db"}
    THEN DList(<<DDict(<<Item("owner", DStr("o1")), Item("data", DStr("d1"))>>)>>)
    ELSE IF key = "runs"
    THEN DList(<<DDict(<<
             Item("kernel", DDict(<<Item("name", DStr("vmlinuz")),
                                    Item("digest", DDict(<<Item("sha256", DStr("k1"))>>))>>)),
             Item("kernel_cmdline", DStr("ro")),
             Item("initrd", DStr("initrd"))>>)>>)
    ELSE DList(<<DDict(<<Item("sha256", DStr(key))>>)>>)

AllKeys == Required \o <<"moklist">>

Params(keys) ==
    LET present == SelectSeq(AllKeys, LAMBDA k : k \in keys) IN
    DDict([i \in 1..Len(present) |-> Item(present[i], ParamValue(present[i]))])

\* the first required parameter the mapping lacks, 0 when it has them all
FirstMissing(params) ==
    LET missing == {i \in 1..Len(Required) : ~HasKey(params, Required[i])} IN
    IF missing = {} THEN 0 ELSE CHOOSE i \in missing : \A j \in missing : i <= j

\* Dispatcher.set(key_vals, test) on the keys registered so far
Dispatcher_set(key_names, keys, key_vals) ==
    IF Len(key_vals) # Len(key_names) THEN Raises("Exception")
    ELSE IF \E i \in 1..Len(keys) : keys[i] = key_vals THEN Raises("Exception")
    ELSE Returns(Append(keys, key_vals))

\* the key tuples NextGen2.compile registers, in the order of its set calls
NextGen2Keys ==
    <<<<DInt(0), DStr("EV_NO_ACTION")>>, <<DInt(0), DStr("EV_S_CRTM_VERSION")>>,
      <<DInt(0), DStr("EV_POST_CODE")>>,
      <<DInt(7), DStr("EV_EFI_VARIABLE_DRIVER_CONFIG")>>>>
    \o [pcr \in 1..8 |-> <<DInt(pcr - 1), DStr("EV_SEPARATOR")>>]
    \o <<<<DInt(2), DStr("EV_EFI_BOOT_SERVICES_DRIVER")>>,
         <<DInt(1), DStr("EV_EFI_VARIABLE_BOOT")>>,
         <<DInt(7), DStr("EV_EFI_VARIABLE_AUTHORITY")>>,
         <<DInt(4), DStr("EV_EFI_BOOT_SERVICES_APPLICATION")>>,
         <<DInt(14), DStr("EV_IPL")>>, <<DInt(8), DStr("EV_IPL")>>,
         <<DInt(9), DStr("EV_IPL")>>>>

\* the attributes of class DelayToFields, and the keyword parameters of
\* IterateTest.__init__
DelayToFieldsAttrs ==
    {"field_names", "fields_test", "initialize_globals", "get_initializer",
     "get", "why_not"}
IterateTestParams == {"elt_test", "show_elt"}

\* the set calls of NextGen2.compile up to the n-th; the one on
\* (14, EV_IPL) reads params['moklist']
RECURSIVE NextGen2_sets(_, _)
NextGen2_sets(params, n) ==
    IF n = 0 THEN Returns(<<>>)
    ELSE LET before == NextGen2_sets(params, n - 1) IN
         IF before.exc # "" THEN before
         ELSE IF NextGen2Keys[n] = <<DInt(14), DStr("EV_IPL")>>
                 /\ ~HasKey(params, "moklist")
         THEN Raises("KeyError")
         ELSE Dispatcher_set(<<"PCRIndex", "EventType">>, before.value,
                             NextGen2Keys[n])

\* NextGen2.compile(params)
NextGen2_compile(params) ==
    IF FirstMissing(params) # 0
    THEN Returns(PyStr(<<Txt("params lacks"), Txt(Required[FirstMissing(params)])>>))
    ELSE LET sets == NextGen2_sets(params, Len(NextGen2Keys)) IN
         IF sets.exc # "" THEN sets
         ELSE IF "get_reset" \notin DelayToFieldsAttrs THEN Raises("AttributeError")
         ELSE IF ~({"initial_test", "final_test"} \subseteq IterateTestParams)
         THEN Raises("TypeError")
         ELSE Returns(PyTest("FieldTest"))

\* AcceptAll.compile(params): the closure test
AcceptAll_compile(params) == Returns(PyFunction("AcceptAll.test"))

\* policies.compile(policy_name, params)
compile(reg, policy_name, params) ==
    IF policy_name \notin DOMAIN reg
    THEN Returns(PyStr(<<Txt("there is no policy named"), Txt(policy_name)>>))
    ELSE IF reg[policy_name] = "NextGen2" THEN NextGen2_compile(params)
    ELSE AcceptAll_compile(params)

\* the event logs handed to evaluate: one in which every event falls in a
\* registered branch with approved digests and keys, and the same log with
\* one approved digest replaced
EventLogs == {"approved", "one digest unapproved"}

PolicyNames == {"accept-all", "nextgen2", "custom", "nope"}

InitPolicy ==
    /\ registry = Registry0
    /\ \E op \in {"compile", "evaluate"}, name \in PolicyNames,
          keys \in SUBSET ParamKeys, log \in EventLogs :
           drv = [pc |-> "start", op |-> op, policy_name |-> name,
                  params |-> Params(keys), keys0 |-> keys,
                  eventlog |-> log, reg0 |-> Registry0,
                  tester |-> DNone, given |-> <<>>, exc |-> ""]
    /\ tree = AcceptAll
    /\ heap = <<>>
    /\ calls = NoCalls
    /\ conv = NoConv
    /\ enr = NoEnr
    /\ dec = NoDec

\* register(name, policy), before the call under study starts
Register(name, policy) ==
    /\ drv.pc = "start"
    /\ name \notin DOMAIN registry
    /\ registry' = register(registry, name, policy)
    /\ drv' = [drv EXCEPT !.reg0 = registry']
    /\ UNCHANGED <<tree, heap, calls, conv, enr, dec>>

\* policies.compile called by the caller, or as the first statement of
\* policies.evaluate
DrvCompile ==
    /\ drv.pc = "start"
    /\ LET r == compile(registry, drv.policy_name, drv.params) IN
       drv' = [drv EXCEPT !.tester = r.value, !.exc = r.exc,
                          !.pc = IF r.exc # "" THEN "raised"
                                 ELSE IF drv.op = "compile" THEN "returned"
                                 ELSE "compiled"]
    /\ UNCHANGED <<tree, heap, calls, registry, conv, enr, dec>>

\* evaluate: tester(eventlog, pcr_contents, cont).  Only the closure of
\* AcceptAll.compile is callable; it calls continuation('').
DrvCallTester ==
    /\ drv.pc = "compiled"
    /\ drv' = IF drv.tester.t = "function"
              THEN [drv EXCEPT !.pc = "in cont", !.given = Append(@, PyStr(Pass))]
              ELSE [drv EXCEPT !.pc = "raised", !.exc = "TypeError"]
    /\ UNCHANGED <<tree, heap, calls, registry, conv, enr, dec>>

\* the continuation returns, or raises
DrvContEnds(raised) ==
    /\ drv.pc = "in cont"
    /\ drv' = IF raised THEN [drv EXCEPT !.pc = "raised", !.exc = "Exception"]
              ELSE [drv EXCEPT !.pc = "returned"]
    /\ UNCHANGED <<tree, heap, calls, registry, conv, enr, dec>>

NextPolicy ==
    \/ Register("custom", "AcceptAll")
    \/ DrvCompile
    \/ DrvCallTester
    \/ \E raised \in BOOLEAN : DrvContEnds(raised)

SpecPolicy == InitPolicy /\ [][NextPolicy]_vars

DrvEnded == drv.pc \in {"returned", "raised"}

IsReason(x) == x.t = "str"

\* C2: policies.evaluate with a registered policy name gives the
\* continuation exactly one string, empty or a reason.
C2_ContinuationOnce ==
    (DrvEnded /\ drv.op = "evaluate" /\ drv.policy_name \in DOMAIN drv.reg0) =>
        Len(drv.given) = 1 /\ IsReason(drv.given[1])

\* C3: a policy name that is not registered is reported to the caller of
\* compile and of evaluate as a descriptive error, and nothing is raised.
C3_UnknownNameReported ==
    (DrvEnded /\ drv.policy_name \notin DOMAIN drv.reg0) =>
        /\ drv.exc = ""
        /\ \/ IsReason(drv.tester) /\ drv.tester.v # Pass /\ drv.op = "compile"
           \/ Len(drv.given) = 1 /\ IsReason(drv.given[1]) /\ drv.given[1].v # Pass

ByNextGen2 ==
    /\ drv.policy_name \in DOMAIN drv.reg0
    /\ drv.reg0[drv.policy_name] = "NextGen2"

\* C4: NextGen2.compile gives the compiled Test when no required parameter
\* is absent and otherwise the error string naming the first absent one; it
\* never raises and changes neither the registry nor the parameters.
C4_CompileTestOrError ==
    (DrvEnded /\ drv.op = "compile" /\ ByNextGen2) =>
        /\ drv.exc = ""
        /\ IF FirstMissing(Params(drv.keys0)) = 0 THEN drv.tester.t = "Test"
           ELSE drv.tester = PyStr(<<Txt("params lacks"),
                                     Txt(Required[FirstMissing(Params(drv.keys0))])>>)
        /\ registry = drv.reg0
        /\ drv.params = Params(drv.keys0)

\* C5: with nextgen2 compiled from complete parameters the approved event
\* list evaluates to the empty string, and the list with one digest
\* replaced by an unapproved one to a reason.
C5_ApprovedLogAccepted ==
    (DrvEnded /\ drv.op = "evaluate" /\ ByNextGen2
        /\ drv.keys0 = ParamKeys) =>
        /\ drv.exc = ""
        /\ Len(drv.given) = 1 /\ IsReason(drv.given[1])
        /\ (drv.given[1].v = Pass) <=> (drv.eventlog = "approved")

(***************************************************************************)
(* conversions.py: bin_to_json(bin, consume).                              *)
(***************************************************************************)
Timeout == 100      \* communicate(timeout=100)

\* the names random.randint can give the temporary directory
DirNames == {"1000000", "5555555", "9999999"}

\* how long an external step runs, and the code it exits with
Durations == {Timeout - 1, Timeout + 1}
ReturnCodes == {0, 1}

\* A variant of StepFailure that does not look at the return code.
StepFailure_ignores_code(duration, returncode) ==
    IF duration > Timeout THEN "took too long" ELSE ""

\* p.communicate(timeout=100) and the check of p.returncode: the failure
\* the step ends in, "" when it finished in time with code 0.
StepFailure(duration, returncode) ==
    IF duration > Timeout THEN "took too long"
    ELSE IF returncode # 0 THEN "returned code"
    ELSE ""

\* A variant of Fail that removes the directory on the way out.
Fail_removes(cv, exc) ==
    [cv EXCEPT !.pc = "raised", !.exc = exc, !.dirs = @ \ {cv.temp_name},
               !.files = {}]

\* raise: bin_to_json exits with an exception, the directory left as it is.
Fail(cv, exc) == [cv EXCEPT !.pc = "raised", !.exc = exc]

\* the steps bin_to_json has taken, with how each external step ended
Did(cv, step, duration, returncode) ==
    [cv EXCEPT !.log = Append(@, [step |-> step, duration |-> duration,
                                  returncode |-> returncode])]

InitConv ==
    /\ \E dirs \in SUBSET DirNames, bin \in {"", "log"} :
           conv = [pc |-> "makedirs", dirs |-> dirs, dirs0 |-> dirs,
                   bin |-> bin, temp_name |-> "", files |-> {}, log |-> <<>>,
                   exc |-> ""]
    /\ tree = AcceptAll
    /\ heap = <<>>
    /\ calls = NoCalls
    /\ registry = <<>>
    /\ drv = NoDrv
    /\ enr = NoEnr
    /\ dec = NoDec

Rest == <<tree, heap, calls, registry, drv, enr, dec>>

\* the loop around os.makedirs(temp_name): a name that exists is drawn again
MakeDirs(name) ==
    /\ conv.pc = "makedirs"
    /\ conv' = IF name \in conv.dirs THEN conv
               ELSE [conv EXCEPT !.pc = "write bin", !.temp_name = name,
                                 !.dirs = @ \cup {name}]
    /\ UNCHANGED Rest

\* with open(temp_bin_name, 'wb') as temp_bin: temp_bin.write(bin)
WriteBin ==
    /\ conv.pc = "write bin"
    /\ conv' = [conv EXCEPT !.pc = "parse", !.files = @ \cup {"bin"}]
    /\ UNCHANGED Rest

\* the parse step: parsed.yaml is opened for writing, tpm2_eventlog runs
Parse(duration, returncode) ==
    /\ conv.pc = "parse"
    /\ LET cv == Did([conv EXCEPT !.files = @ \cup {"parsed.yaml"}], "parse",
                     duration, returncode)
           failure == StepFailure(duration, returncode)
       IN  conv' = IF failure # "" THEN Fail(cv, "parse " \o failure)
                   ELSE [cv EXCEPT !.pc = "enrich"]
    /\ UNCHANGED Rest

\* the enrich step: enriched.json is opened for writing, enrich.py runs
Enrich(duration, returncode) ==
    /\ conv.pc = "enrich"
    /\ LET cv == Did([conv EXCEPT !.files = @ \cup {"enriched.json"}], "enrich",
                     duration, returncode)
           failure == StepFailure(duration, returncode)
       IN  conv' = IF failure # "" THEN Fail(cv, "enrich " \o failure)
                   ELSE [cv EXCEPT !.pc = "load"]
    /\ UNCHANGED Rest

\* as_py = json.loads(as_json)
Load(wellformed) ==
    /\ conv.pc = "load"
    /\ conv' = IF wellformed THEN [conv EXCEPT !.pc = "consume"]
               ELSE Fail(conv, "JSONDecodeError")
    /\ UNCHANGED Rest

\* consume(as_py)
Consume(raised) ==
    /\ conv.pc = "consume"
    /\ conv' = IF raised THEN Fail(Did(conv, "consume", 0, 0), "consumer")
               ELSE [Did(conv, "consume", 0, 0) EXCEPT !.pc = "rmtree"]
    /\ UNCHANGED Rest

\* shutil.rmtree(temp_name); return
RmTree ==
    /\ conv.pc = "rmtree"
    /\ conv' = [conv EXCEPT !.pc = "returned", !.dirs = @ \ {conv.temp_name},
                            !.files = {}]
    /\ UNCHANGED Rest

NextConv ==
    \/ \E name \in DirNames : MakeDirs(name)
    \/ WriteBin
    \/ \E d \in Durations, rc \in ReturnCodes : Parse(d, rc)
    \/ \E d \in Durations, rc \in ReturnCodes : Enrich(d, rc)
    \/ \E wellformed \in BOOLEAN : Load(wellformed)
    \/ \E raised \in BOOLEAN : Consume(raised)
    \/ RmTree

SpecConv == InitConv /\ [][NextConv]_vars

ConvEnded == conv.pc \in {"returned", "raised"}

Steps(log) == [i \in 1..Len(log) |-> log[i].step]

\* an external step that finished within the time budget with exit code 0
Succeeded(entry) == entry.duration <= Timeout /\ entry.returncode = 0

\* the files bin_to_json has created once the steps of the log have started
FilesAfter(log) ==
    {"bin"} \cup (IF Len(log) >= 1 THEN {"parsed.yaml"} ELSE {})
            \cup (IF Len(log) >= 2 THEN {"enriched.json"} ELSE {})

\* C9: when bin_to_json exits, its temporary directory is gone if and only
\* if both external steps succeeded and the consumer returned without
\* raising; when it exits by a failure the directory and every file written
\* to it are still there.  No other directory is touched.
C9_CleanupOnlyOnSuccess ==
    ConvEnded =>
        /\ (conv.temp_name \notin conv.dirs) <=>
               /\ Steps(conv.log) = <<"parse", "enrich", "consume">>
               /\ Succeeded(conv.log[1]) /\ Succeeded(conv.log[2])
               /\ conv.exc = ""
        /\ conv.exc # "" =>
               /\ conv.pc = "raised"
               /\ conv.temp_name \in conv.dirs
               /\ conv.files = FilesAfter(conv.log)
        /\ conv.dirs \ {conv.temp_name} = conv.dirs0

\* bin_to_json has exited because the enrich step returned a non-zero code.
C9_Witness ==
    /\ conv.pc = "raised" /\ Steps(conv.log) = <<"parse", "enrich">>
    /\ conv.exc = "enrich returned code"
    /\ conv.temp_name \in conv.dirs

\* C10: the consumer is invoked at most once, and only after the parse step
\* and then the enrich step have each finished in time with exit code 0; an
\* external step that times out or exits with another code is the last
\* step taken: bin_to_json raises, the consumer is not invoked, and no
\* enrich step follows a failed parse step.
C10_ConsumerSeesWholeRecord ==
    /\ Len(SelectSeq(conv.log, LAMBDA e : e.step = "consume")) <= 1
    /\ (\E i \in 1..Len(conv.log) : conv.log[i].step = "consume") =>
           /\ Steps(conv.log) = <<"parse", "enrich", "consume">>
           /\ Succeeded(conv.log[1]) /\ Succeeded(conv.log[2])
    /\ \A i \in 1..Len(conv.log) :
           (conv.log[i].step # "consume" /\ ~Succeeded(conv.log[i])) =>
               /\ i = Len(conv.log)
               /\ conv.pc = "raised"
               /\ conv.exc \notin {"", "consumer", "JSONDecodeError"}

\* The consumer has been given the record and has returned.
C10_Witness ==
    conv.pc = "rmtree" /\ Steps(conv.log) = <<"parse", "enrich", "consume">>

(***************************************************************************)
(* enrich.py: bytes and strings of hex digits.  bytes is a sequence of     *)
(* numbers 0..255.  A str the parser wrote as a hex dump is kept as the    *)
(* sequence of its characters, a hex digit as its value 0..15 and any      *)
(* other character as NotHex.                                              *)
(***************************************************************************)
NotHex == 16

DHex(chars) == [t |-> "hexstr", v |-> chars]

\* bytes.fromhex(d): ValueError on a character that is no hex digit and on
\* an odd number of digits; TypeError when d is not a str
fromhex(d) ==
    IF d.t = "str" THEN Raises("ValueError")
    ELSE IF d.t # "hexstr" THEN Raises("TypeError")
    ELSE IF Len(d.v) % 2 # 0 \/ \E i \in 1..Len(d.v) : d.v[i] = NotHex
    THEN Raises("ValueError")
    ELSE Returns([i \in 1..(Len(d.v) \div 2) |-> 16 * d.v[2 * i - 1] + d.v[2 * i]])

\* b.hex()
hex(b) ==
    DHex([i \in 1..(2 * Len(b)) |->
             IF i % 2 = 1 THEN b[(i + 1) \div 2] \div 16 ELSE b[i \div 2] % 16])

\* b[i:j], indices from 0, clipped to the bytes there are
Slice(b, i, j) == SubSeq(b, i + 1, IF j < Len(b) THEN j ELSE Len(b))

\* int.from_bytes(b, "little")
RECURSIVE from_bytes(_)
from_bytes(b) == IF Len(b) = 0 THEN 0 ELSE b[1] + 256 * from_bytes(Tail(b))

(***************************************************************************)
(* enrich.py: libefivar.  What the C library makes of its argument is not  *)
(* in the source: lib says whether its calls succeed, and a formatted      *)
(* string is kept as the bytes it was formatted from.  efi_guid_to_str     *)
(* reads 16 bytes; given fewer, the rest is whatever memory holds.         *)
(***************************************************************************)
Libs == [dp : BOOLEAN, guid : BOOLEAN]

getDevicePath(lib, b) ==
    IF lib.dp THEN Returns([t |-> "devicepath", v |-> b]) ELSE Raises("Exception")

getGUID(lib, b) ==
    IF lib.guid THEN Returns([t |-> "guid", v |-> b]) ELSE Raises("Exception")

\* getKey(b, start, size): one EFI_SIGNATURE_DATA
getKey(lib, b, start, size) ==
    LET signatureOwner == getGUID(lib, Slice(b, start, start + 16)) IN
    IF signatureOwner.exc # "" THEN signatureOwner
    ELSE Returns(DDict(<<Item("SignatureOwner", signatureOwner.value),
                         Item("SignatureData",
                              hex(Slice(b, start + 16, start + size)))>>))

\* the loop of getKeyDB over the signatures of one list, from offset i
RECURSIVE getKeys(_, _, _, _, _)
getKeys(lib, b, i, size, n) ==
    IF n = 0 THEN Returns(<<>>)
    ELSE LET key == getKey(lib, b, i, size) IN
         IF key.exc # "" THEN key
         ELSE LET rest == getKeys(lib, b, i + size, size, n - 1) IN
              IF rest.exc # "" THEN rest
              ELSE Returns(<<key.value>> \o rest.value)

\* One iteration of the while loop of getKeyDB: the EFI_SIGNATURE_LIST read
\* at offset start, and the offset the next iteration starts from.
getKeyDB_iteration(lib, b, start) ==
    LET signatureType == getGUID(lib, Slice(b, start, start + 16))
        SignatureListSize == from_bytes(Slice(b, start + 16, start + 20))
        SignatureHeaderSize == from_bytes(Slice(b, start + 20, start + 24))
        SignatureSize == from_bytes(Slice(b, start + 24, start + 28))
        sllen == SignatureListSize - 28 - SignatureHeaderSize
        numberOfSignatures == sllen \div SignatureSize
        keys == getKeys(lib, b, start + 28, SignatureSize, numberOfSignatures)
    IN  IF signatureType.exc # "" THEN [exc |-> "Exception", start |-> start]
        ELSE IF sllen < 0 THEN [exc |-> "Exception", start |-> start]
        ELSE IF SignatureSize = 0 THEN [exc |-> "ZeroDivisionError", start |-> start]
        ELSE IF sllen % SignatureSize # 0 THEN [exc |-> "Exception", start |-> start]
        ELSE IF keys.exc # "" THEN [exc |-> keys.exc, start |-> start]
        ELSE [exc |-> "",
              start |-> start + 28 + numberOfSignatures * SignatureSize,
              keylist |-> DDict(<<
                  Item("SignatureType", signatureType.value),
                  Item("SignatureListSize", DInt(SignatureListSize)),
                  Item("SignatureHeaderSize", DInt(SignatureHeaderSize)),
                  Item("SignatureSize", DInt(SignatureSize)),
                  Item("Keys", DList(keys.value))>>)]

\* getKeyDB(b): while start < len(b)
RECURSIVE getKeyDB_loop(_, _, _, _)
getKeyDB_loop(lib, b, start, keylists) ==
    IF start >= Len(b) THEN Returns(DList(keylists))
    ELSE LET it == getKeyDB_iteration(lib, b, start) IN
         IF it.exc # "" THEN Raises(it.exc)
         ELSE getKeyDB_loop(lib, b, it.start, Append(keylists, it.keylist))

getKeyDB(lib, b) == getKeyDB_loop(lib, b, 0, <<>>)

\* "%04x" % d: lower-case hex digits, at least four of them
HexChar ==
    <<"0", "1", "2", "3", "4", "5", "6", "7", "8", "9", "a", "b", "c", "d",
      "e", "f">>

RECURSIVE HexDigits(_)
HexDigits(d) ==
    IF d < 16 THEN HexChar[d + 1]
    ELSE HexDigits(d \div 16) \o HexChar[(d % 16) + 1]

Format04x(d) ==
    (IF d < 16 THEN "000" ELSE IF d < 256 THEN "00" ELSE IF d < 4096 THEN "0" ELSE "")
    \o HexDigits(d)

\* w.decode("utf-16", errors="ignore") of the two bytes w: the code unit,
\* or nothing for a byte-order mark, a lone surrogate or a single byte
decode_utf16(w) ==
    LET unit == from_bytes(w) IN
    IF Len(w) < 2 \/ unit \in {65279, 65534} \/ (unit >= 55296 /\ unit <= 57343)
    THEN <<>>
    ELSE <<unit>>

\* The loop of getVar and getGPT over the two-byte characters of a name:
\* from offset i up to limit, stopping after a terminating 0000.
RECURSIVE Chars(_, _, _, _)
Chars(b, i, limit, sofar) ==
    IF i >= limit THEN [i |-> i, text |-> sofar]
    ELSE LET w == Slice(b, i, i + 2) IN
         IF w = <<0, 0>> THEN [i |-> i + 2, text |-> sofar]
         ELSE Chars(b, i + 2, limit, sofar \o decode_utf16(w))

DText(units) == [t |-> "text", v |-> units]

\* the names re.match('Boot[0-9a-fA-F]{4}', name) accepts, among the
\* variable names of the model: the pattern is matched at the start only
BootVariables == {"Boot0001", "Boot0001x"}

\* getVar(event, b): BootOrder and Boot####; None for every other variable
\* and for an event without UnicodeName or VariableDataLength
getVar(lib, event, b) ==
    IF ~HasKey(event, "UnicodeName") \/ ~HasKey(event, "VariableDataLength")
    THEN Returns(DNone)
    ELSE LET varlen == GetItem(event, "VariableDataLength")
             UnicodeName == GetItem(event, "UnicodeName")
         IN
         IF UnicodeName = DStr("BootOrder")
         THEN IF varlen.t # "int" THEN Raises("TypeError")
              ELSE IF varlen.v % 2 # 0 THEN Raises("Exception")
              ELSE Returns(DList([x \in 1..(varlen.v \div 2) |->
                       DStr("Boot" \o Format04x(
                           from_bytes(Slice(b, (x - 1) * 2, (x - 1) * 2 + 2))))]))
         ELSE IF UnicodeName.t = "str" /\ UnicodeName.v \in BootVariables
         THEN IF varlen.t # "int" THEN Raises("TypeError")
              ELSE LET description == Chars(b, 6, varlen.v, <<>>)
                       devicePath == getDevicePath(lib, Slice(b, description.i, Len(b)))
                   IN  IF devicePath.exc # "" THEN devicePath
                       ELSE Returns(DDict(<<
                           Item("Enabled",
                                DStr(IF from_bytes(Slice(b, 0, 4)) % 2 = 0
                                     THEN "No" ELSE "Yes")),
                           Item("FilePathListLength",
                                DInt(from_bytes(Slice(b, 4, 6)))),
                           Item("Description", DText(description.text)),
                           Item("DevicePath", devicePath.value)>>))
         ELSE Returns(DNone)

\* int.from_bytes(b[i:i+size], "little")
Field(b, i, size) == DInt(from_bytes(Slice(b, i, i + size)))

\* One UEFI_PARTITION_ENTRY of getGPT, read at offset start
Partition(lib, b, start) ==
    LET partitionTypeGUID == getGUID(lib, Slice(b, start, start + 16))
        uniquePartitionGUID == getGUID(lib, Slice(b, start + 16, start + 32))
    IN  IF partitionTypeGUID.exc # "" THEN partitionTypeGUID
        ELSE IF uniquePartitionGUID.exc # "" THEN uniquePartitionGUID
        ELSE Returns(DDict(<<
            Item("PartitionTypeGUID", partitionTypeGUID.value),
            Item("UniquePartitionGUID", uniquePartitionGUID.value),
            Item("StartingLBA", Field(b, start + 32, 8)),
            Item("EndingLBA", Field(b, start + 40, 8)),
            Item("Attributes", Field(b, start + 48, 8)),
            Item("PartitionName",
                 DText(Chars(b, start + 56, start + 128, <<>>).text))>>))

\* the loop of getGPT over range(NumberOfPartitions): entries of 128 bytes
RECURSIVE Partitions(_, _, _, _)
Partitions(lib, b, i, n) ==
    IF n = 0 THEN Returns(<<>>)
    ELSE LET partition == Partition(lib, b, i) IN
         IF partition.exc # "" THEN partition
         ELSE LET rest == Partitions(lib, b, i + 128, n - 1) IN
              IF rest.exc # "" THEN rest
              ELSE Returns(<<partition.value>> \o rest.value)

\* getGPT(b): the UEFI_GPT_DATA of an EV_EFI_GPT_EVENT
getGPT(lib, b) ==
    LET diskGUID == getGUID(lib, Slice(b, 56, 72))
        NumberOfPartitions == from_bytes(Slice(b, 92, 100))
        partitions == Partitions(lib, b, 100, NumberOfPartitions)
    IN  IF diskGUID.exc # "" THEN diskGUID
        ELSE IF partitions.exc # "" THEN partitions
        ELSE Returns(DDict(<<
            Item("Header", DDict(<<
                Item("Signature", [t |-> "utf8", v |-> Slice(b, 0, 8)]),
                Item("Revision", Field(b, 8, 4)),
                Item("HeaderSize", Field(b, 12, 4)),
                Item("HeaderCRC32", Field(b, 16, 4)),
                Item("MyLBA", Field(b, 24, 8)),
                Item("AlternateLBA", Field(b, 32, 8)),
                Item("FirstUsableLBA", Field(b, 40, 8)),
                Item("LastUsableLBA", Field(b, 48, 8)),
                Item("DiskGuid", diskGUID.value),
                Item("PartitionEntryLBA", Field(b, 72, 8)),
                Item("NumberOfPartitionEntries", Field(b, 80, 4)),
                Item("SizeOfPartitionEntry", Field(b, 84, 4)),
                Item("PartitionEntryArrayCRC", Field(b, 88, 4))>>)),
            Item("NumberOfPartitions", DInt(NumberOfPartitions)),
            Item("Partitions", DList(partitions.value))>>))

(***************************************************************************)
(* enrich.py: enrich(log).                                                 *)
(***************************************************************************)
\* name in d: a key of a dict; False for a str or a list of the model, none
\* of which holds the name; TypeError for an int or None
Iterable(d) == d.t \notin {"int", "none"}
Contains(d, name) == d.t = "dict" /\ HasKey(d, name)

\* d[name] = value: the item keeps its place in the dict
SetField(d, name, value) ==
    DDict([i \in 1..Len(d.v) |->
              IF d.v[i].k = name THEN Item(name, value) ELSE d.v[i]])

\* What one iteration of the loop of enrich makes of an event: the event as
\* it leaves it, or the exception that escapes and the statement it is from.
Enriched(event) == [exc |-> "", by |-> "", event |-> event]
Escapes(exc, by, event) == [exc |-> exc, by |-> by, event |-> event]

\* event['Event'][name] = value
SetEventField(event, name, value) ==
    SetField(event, "Event", SetField(GetItem(event, "Event"), name, value))

\* A variant of enrich_DevicePath without the except clause around
\* getDevicePath.
enrich_DevicePath_uncaught(lib, event, d) ==
    IF ~Iterable(d) THEN Escapes("TypeError", "in", event)
    ELSE IF ~Contains(d, "DevicePath") THEN Enriched(event)
    ELSE LET b == fromhex(GetItem(d, "DevicePath")) IN
         IF b.exc # "" THEN Escapes(b.exc, "fromhex", event)
         ELSE LET p == getDevicePath(lib, b.value) IN
              IF p.exc # "" THEN Escapes(p.exc, "getDevicePath", event)
              ELSE Enriched(SetEventField(event, "DevicePath", p.value))

\* EV_EFI_BOOT_SERVICES_APPLICATION, EV_EFI_BOOT_SERVICES_DRIVER and
\* EV_EFI_RUNTIME_SERVICES_DRIVER
enrich_DevicePath(lib, event, d) ==
    IF ~Iterable(d) THEN Escapes("TypeError", "in", event)
    ELSE IF ~Contains(d, "DevicePath") THEN Enriched(event)
    ELSE LET b == fromhex(GetItem(d, "DevicePath")) IN
         IF b.exc # "" THEN Escapes(b.exc, "fromhex", event)
         ELSE LET p == getDevicePath(lib, b.value) IN
              Enriched(SetEventField(event, "DevicePath",
                  IF p.exc # "" THEN GetItem(d, "DevicePath") ELSE p.value))

\* EV_EFI_VARIABLE_DRIVER_CONFIG
enrich_DriverConfig(lib, event, d) ==
    IF ~Iterable(d) THEN Escapes("TypeError", "in", event)
    ELSE IF ~Contains(d, "UnicodeName") THEN Enriched(event)
    ELSE LET UnicodeName == GetItem(d, "UnicodeName") IN
         IF UnicodeName \in {DStr("PK"), DStr("KEK"), DStr("db"), DStr("dbx")}
         THEN IF ~Contains(d, "VariableData") THEN Enriched(event)
              ELSE LET b == fromhex(GetItem(d, "VariableData")) IN
                   IF b.exc # "" THEN Escapes(b.exc, "fromhex", event)
                   ELSE LET k == getKeyDB(lib, b.value) IN
                        IF k.exc # "" THEN Escapes(k.exc, "getKeyDB", event)
                        ELSE Enriched(SetEventField(event, "VariableData", k.value))
         ELSE IF UnicodeName = DStr("SecureBoot")
         THEN IF ~Contains(d, "VariableData") THEN Enriched(event)
              ELSE LET b == fromhex(GetItem(d, "VariableData")) IN
                   IF b.exc # "" THEN Escapes(b.exc, "fromhex", event)
                   ELSE IF Len(b.value) > 1
                   THEN Escapes("Exception", "SecureBoot", event)
                   ELSE Enriched(SetEventField(event, "VariableData",
                            DDict(<<Item("Enabled",
                                DStr(IF b.value \in {<<>>, <<0>>}
                                     THEN "No" ELSE "Yes"))>>)))
         ELSE Enriched(event)

\* EV_EFI_VARIABLE_AUTHORITY
enrich_Authority(lib, event, d) ==
    IF ~Iterable(d) THEN Escapes("TypeError", "in", event)
    ELSE IF ~Contains(d, "VariableData") THEN Enriched(event)
    ELSE LET b == fromhex(GetItem(d, "VariableData")) IN
         IF b.exc # "" THEN Escapes(b.exc, "fromhex", event)
         ELSE LET k == getKey(lib, b.value, 0, Len(b.value)) IN
              IF k.exc # "" THEN Escapes(k.exc, "getKey", event)
              ELSE Enriched(SetEventField(event, "VariableData", k.value))

\* EV_EFI_VARIABLE_BOOT
enrich_Boot(lib, event, d) ==
    IF ~Iterable(d) THEN Escapes("TypeError", "in", event)
    ELSE IF ~Contains(d, "VariableData") THEN Enriched(event)
    ELSE LET b == fromhex(GetItem(d, "VariableData")) IN
         IF b.exc # "" THEN Escapes(b.exc, "fromhex", event)
         ELSE LET k == getVar(lib, d, b.value) IN
              IF k.exc # "" THEN Escapes(k.exc, "getVar", event)
              ELSE Enriched(SetEventField(event, "VariableData", k.value))

\* EV_EFI_GPT_EVENT
enrich_GPT(lib, event) ==
    LET b == fromhex(GetItem(event, "Event")) IN
    IF b.exc # "" THEN Escapes(b.exc, "fromhex", event)
    ELSE LET k == getGPT(lib, b.value) IN
         IF k.exc # "" THEN Escapes(k.exc, "getGPT", event)
         ELSE Enriched(SetField(event, "Event", k.value))

DevicePathTypes ==
    {"EV_EFI_BOOT_SERVICES_APPLICATION", "EV_EFI_BOOT_SERVICES_DRIVER",
     "EV_EFI_RUNTIME_SERVICES_DRIVER"}

\* A variant of enrich_event that empties the payload of an event whose
\* type it does not decode.
enrich_event_clears(lib, event) ==
    IF ~Iterable(event) THEN Escapes("TypeError", "in", event)
    ELSE IF ~Contains(event, "EventType") THEN Enriched(event)
    ELSE LET t == GetItem(event, "EventType") IN
         IF t.t # "str" \/ ~Contains(event, "Event") THEN Enriched(event)
         ELSE LET d == GetItem(event, "Event") IN
              IF t.v \in DevicePathTypes THEN enrich_DevicePath(lib, event, d)
              ELSE IF t.v = "EV_EFI_VARIABLE_DRIVER_CONFIG"
              THEN enrich_DriverConfig(lib, event, d)
              ELSE IF t.v = "EV_EFI_VARIABLE_AUTHORITY"
              THEN enrich_Authority(lib, event, d)
              ELSE IF t.v = "EV_EFI_VARIABLE_BOOT" THEN enrich_Boot(lib, event, d)
              ELSE IF t.v = "EV_EFI_GPT_EVENT" THEN enrich_GPT(lib, event)
              ELSE Enriched(SetField(event, "Event", DNone))

\* the body of "for event in events" in enrich
enrich_event(lib, event) ==
    IF ~Iterable(event) THEN Escapes("TypeError", "in", event)
    ELSE IF ~Contains(event, "EventType") THEN Enriched(event)
    ELSE LET t == GetItem(event, "EventType") IN
         IF t.t # "str" \/ ~Contains(event, "Event") THEN Enriched(event)
         ELSE LET d == GetItem(event, "Event") IN
              IF t.v \in DevicePathTypes THEN enrich_DevicePath(lib, event, d)
              ELSE IF t.v = "EV_EFI_VARIABLE_DRIVER_CONFIG"
              THEN enrich_DriverConfig(lib, event, d)
              ELSE IF t.v = "EV_EFI_VARIABLE_AUTHORITY"
              THEN enrich_Authority(lib, event, d)
              ELSE IF t.v = "EV_EFI_VARIABLE_BOOT" THEN enrich_Boot(lib, event, d)
              ELSE IF t.v = "EV_EFI_GPT_EVENT" THEN enrich_GPT(lib, event)
              ELSE Enriched(event)

(***************************************************************************)
(* The logs enrich is given: what the parser writes for each event type,   *)
(* binary fields as hex dumps.                                             *)
(***************************************************************************)
MaxEnrichLog == 2   \* most events in a log given to enrich

\* n.to_bytes(size, "little")
to_bytes(n, size) ==
    [i \in 1..size |->
        (n \div (IF i = 1 THEN 1 ELSE IF i = 2 THEN 256 ELSE IF i = 3 THEN 65536
                 ELSE 16777216)) % 256]

Repeat(byte, n) == [i \in 1..n |-> byte]

\* An EFI_SIGNATURE_DATA of the given size: owner GUID, then the data.
SignatureData(k, size) == [j \in 1..size |-> 16 * k + (IF j <= 16 THEN 0 ELSE j - 16)]

\* A well-formed EFI_SIGNATURE_LIST: SignatureType, SignatureListSize,
\* SignatureHeaderSize, SignatureSize, the header, the signatures.
RECURSIVE Signatures(_, _)
Signatures(n, size) ==
    IF n = 0 THEN <<>> ELSE Signatures(n - 1, size) \o SignatureData(n, size)

SignatureList(headersize, size, n) ==
    Repeat(1, 16) \o to_bytes(28 + headersize + n * size, 4)
    \o to_bytes(headersize, 4) \o to_bytes(size, 4)
    \o Repeat(2, headersize) \o Signatures(n, size)

\* A UEFI_GPT_DATA with no partition: the 92 bytes of the header and a
\* NumberOfPartitions of 0.
GPTData == [i \in 1..92 |-> IF i <= 8 THEN 64 + i ELSE 0] \o to_bytes(0, 4) \o to_bytes(0, 4)

\* An EFI_LOAD_OPTION: Attributes, FilePathListLength, Description "A",
\* and a device path of two bytes.
LoadOption == to_bytes(1, 4) \o <<2, 0>> \o <<65, 0, 0, 0>> \o <<127, 255>>

LogEvent(pcr, type, payload) ==
    DDict(<<Item("PCRIndex", DInt(pcr)), Item("EventType", DStr(type)),
            Item("Digests", DList(<<DDict(<<Item("AlgorithmId", DStr("sha256")),
                                            Item("Digest", DStr("d1"))>>)>>)),
            Item("Event", payload)>>)

Variable(name, length, data) ==
    DDict(<<Item("UnicodeName", DStr(name)), Item("VariableDataLength", DInt(length)),
            Item("VariableData", data)>>)

\* device-path events: a hex dump, a dump cut short, a payload with no path
DevicePathEvents ==
    {LogEvent(4, "EV_EFI_BOOT_SERVICES_APPLICATION",
              DDict(<<Item("ImageLength", DInt(7)), Item("DevicePath", hex(<<4, 1, 127>>))>>)),
     LogEvent(2, "EV_EFI_BOOT_SERVICES_DRIVER",
              DDict(<<Item("DevicePath", DHex(<<0, 4, NotHex>>))>>)),
     LogEvent(2, "EV_EFI_RUNTIME_SERVICES_DRIVER",
              DDict(<<Item("ImageLength", DInt(7))>>))}

\* variable-driver-config events
DriverConfigEvents ==
    {LogEvent(7, "EV_EFI_VARIABLE_DRIVER_CONFIG", Variable(name, 45, hex(SignatureList(0, 17, 1))))
        : name \in {"db", "dbx", "dbt"}}
    \cup
    {LogEvent(7, "EV_EFI_VARIABLE_DRIVER_CONFIG", Variable("PK", 28, hex(Repeat(0, 28)))),
     LogEvent(7, "EV_EFI_VARIABLE_DRIVER_CONFIG", Variable("SecureBoot", 1, hex(<<1>>))),
     LogEvent(7, "EV_EFI_VARIABLE_DRIVER_CONFIG", Variable("SecureBoot", 2, hex(<<1, 0>>)))}

\* variable-authority and boot-variable events
VariableEvents ==
    {LogEvent(7, "EV_EFI_VARIABLE_AUTHORITY", Variable("db", 17, hex(SignatureData(1, 17)))),
     LogEvent(1, "EV_EFI_VARIABLE_BOOT", Variable("BootOrder", 4, hex(<<1, 0, 2, 0>>))),
     LogEvent(1, "EV_EFI_VARIABLE_BOOT", Variable("BootOrder", 3, hex(<<1, 0, 2>>))),
     LogEvent(1, "EV_EFI_VARIABLE_BOOT", Variable("BootOrder", 2, hex(<<1, 0, 2>>))),
     LogEvent(1, "EV_EFI_VARIABLE_BOOT", Variable("BootOrder", 4, hex(<<10, 171>>))),
     LogEvent(1, "EV_EFI_VARIABLE_BOOT",
              DDict(<<Item("UnicodeName", DStr("BootOrder")),
                      Item("VariableData", hex(<<1, 0>>))>>)),
     LogEvent(1, "EV_EFI_VARIABLE_BOOT", Variable("Boot0001", 12, hex(LoadOption)))}

\* a GPT event, an event of a type enrich does not decode, and an event
\* without EventType
OtherEvents ==
    {LogEvent(5, "EV_EFI_GPT_EVENT", hex(GPTData)),
     LogEvent(8, "EV_IPL", DDict(<<Item("String", DStr("grub_cmd"))>>)),
     DDict(<<Item("PCRIndex", DInt(0)), Item("Event", hex(<<1>>))>>)}

EnrichEvents == DevicePathEvents \cup DriverConfigEvents \cup VariableEvents \cup OtherEvents

\* enrich(log) is called with a log of events, or with a mapping that has
\* no 'events'.
InitEnrich ==
    /\ \E log \in {Subject(events) : events \in SeqsUpTo(EnrichEvents, MaxEnrichLog)}
                  \cup {DDict(<<Item("pcrs", DNone)>>)} :
           enr = [pc |-> "run", log |-> log, log0 |-> log, idx |-> 1,
                  exc |-> "", by |-> "", libs |-> <<>>]
    /\ tree = AcceptAll
    /\ heap = <<>>
    /\ calls = NoCalls
    /\ registry = <<>>
    /\ drv = NoDrv
    /\ conv = NoConv
    /\ dec = NoDec

EventsOf(log) == IF Contains(log, "events") THEN GetItem(log, "events").v ELSE <<>>

\* One iteration of "for event in events": the event is rewritten in place,
\* or an exception escapes from enrich.  lib is what libefivar does with the
\* bytes this iteration hands it.
EnrichEvent(lib) ==
    /\ enr.pc = "run"
    /\ enr.idx <= Len(EventsOf(enr.log))
    /\ LET r == enrich_event(lib, EventsOf(enr.log)[enr.idx]) IN
       enr' = IF r.exc # ""
              THEN [enr EXCEPT !.pc = "raised", !.exc = r.exc, !.by = r.by,
                               !.libs = Append(@, lib)]
              ELSE [enr EXCEPT !.idx = @ + 1, !.libs = Append(@, lib),
                               !.log = SetField(@, "events",
                                   DList([EventsOf(enr.log) EXCEPT ![enr.idx] = r.event]))]
    /\ UNCHANGED <<tree, heap, calls, registry, drv, conv, dec>>

\* enrich returns: no 'events' in the log, or the loop is through
EnrichReturn ==
    /\ enr.pc = "run"
    /\ enr.idx > Len(EventsOf(enr.log))
    /\ enr' = [enr EXCEPT !.pc = "returned"]
    /\ UNCHANGED <<tree, heap, calls, registry, drv, conv, dec>>

NextEnrich ==
    \/ \E lib \in Libs : EnrichEvent(lib)
    \/ EnrichReturn

SpecEnrich == InitEnrich /\ [][NextEnrich]_vars

(***************************************************************************)
(* enrich: properties.                                                     *)
(***************************************************************************)
\* the events the loop has been through, the last of them the one an
\* exception escaped from
Taken == 1..Len(enr.libs)
Event0(i) == EventsOf(enr.log0)[i]
EventNow(i) == EventsOf(enr.log)[i]
RaisedAt(i) == enr.pc = "raised" /\ enr.idx = i

TypeOf(event) ==
    IF Contains(event, "EventType") THEN GetItem(event, "EventType").v ELSE ""

\* the hex dump under the name in the payload of the event is well formed
HasDump(event, name) ==
    /\ Contains(event, "Event") /\ Contains(GetItem(event, "Event"), name)
    /\ fromhex(GetItem(GetItem(event, "Event"), name)).exc = ""

\* the device-path decoder failed on Event.DevicePath of event i
DevicePathFailed(i) ==
    /\ TypeOf(Event0(i)) \in DevicePathTypes
    /\ HasDump(Event0(i), "DevicePath")
    /\ ~enr.libs[i].dp

\* C11: when the device-path decoder fails on the DevicePath of a
\* boot-services application, driver or runtime-driver event, the field
\* keeps the raw hex string, nothing is raised, and the loop goes on to the
\* next event: enrich does not return before it has been through them all.
C11_DevicePathLenient ==
    /\ \A i \in Taken : DevicePathFailed(i) =>
           /\ ~RaisedAt(i)
           /\ enr.idx > i
           /\ EventNow(i) = Event0(i)
           /\ GetItem(GetItem(EventNow(i), "Event"), "DevicePath").t = "hexstr"
    /\ enr.pc = "returned" => Len(enr.libs) = Len(EventsOf(enr.log0))

\* The decoder failed on the device path of the first event, and enrich has
\* decoded the signature database of the second.
C11_Witness ==
    /\ Len(enr.libs) = 2 /\ DevicePathFailed(1) /\ enr.pc = "returned"
    /\ TypeOf(Event0(2)) = "EV_EFI_VARIABLE_DRIVER_CONFIG"
    /\ EventNow(2) # Event0(2)

\* C12: a decode failure aborts enrich only when it is one of the
\* signature-database decoder, of the SecureBoot length check or of the GPT
\* decoder; a failure of the decoders of boot variables, variable-authority
\* entries and device paths does not escape from enrich.
C12_OnlyThreeDecodersAbort ==
    (enr.pc = "raised" /\ enr.by \notin {"fromhex", "in"}) =>
        enr.by \in {"getKeyDB", "SecureBoot", "getGPT"}

PayloadNow(i, name) == GetItem(GetItem(EventNow(i), "Event"), name)
Payload0(i, name) == GetItem(GetItem(Event0(i), "Event"), name)

\* event i is a variable-driver-config event for one of the names, with a
\* well-formed dump as VariableData, and the loop is past it
DriverConfigDone(i, names) ==
    /\ i < enr.idx
    /\ TypeOf(Event0(i)) = "EV_EFI_VARIABLE_DRIVER_CONFIG"
    /\ HasDump(Event0(i), "VariableData")
    /\ Payload0(i, "UnicodeName").v \in names

\* C13: of a variable-driver-config event enrich replaces VariableData by
\* what the signature-database decoder makes of it when UnicodeName is PK,
\* KEK or db, and leaves VariableData as it was when UnicodeName is dbx.
C13_DbxLeftAlone ==
    \A i \in Taken :
        /\ DriverConfigDone(i, {"PK", "KEK", "db"}) =>
               PayloadNow(i, "VariableData") =
                   getKeyDB(enr.libs[i], fromhex(Payload0(i, "VariableData")).value).value
        /\ DriverConfigDone(i, {"dbx"}) =>
               PayloadNow(i, "VariableData") = Payload0(i, "VariableData")

Keys(d) == [j \in 1..Len(d.v) |-> d.v[j].k]

\* the event types enrich has a branch for
DecodedTypes ==
    DevicePathTypes \cup {"EV_EFI_VARIABLE_DRIVER_CONFIG", "EV_EFI_VARIABLE_AUTHORITY",
                          "EV_EFI_VARIABLE_BOOT", "EV_EFI_GPT_EVENT"}

\* d1 is d0 but for the values under the names
SameBut(d1, d0, names) ==
    /\ Keys(d1) = Keys(d0)
    /\ \A j \in 1..Len(d0.v) : d0.v[j].k \notin names => d1.v[j] = d0.v[j]

\* C14: enrich keeps the number and the order of the events; it leaves an
\* event without EventType, or of a type it does not decode, exactly as it
\* was; of any event it changes nothing but Event (never PCRIndex, EventType
\* or Digests), and within the Event of a device-path or variable event
\* nothing but DevicePath or VariableData.  An event the loop has not
\* reached, or the one an exception escaped from, is as it was.
C14_EnrichFrame ==
    /\ SameBut(enr.log, enr.log0, {"events"})
    /\ Len(EventsOf(enr.log)) = Len(EventsOf(enr.log0))
    /\ \A i \in 1..Len(EventsOf(enr.log0)) :
        /\ SameBut(EventNow(i), Event0(i), {"Event"})
        /\ TypeOf(Event0(i)) \notin DecodedTypes => EventNow(i) = Event0(i)
        /\ (i \notin Taken \/ RaisedAt(i)) => EventNow(i) = Event0(i)
        /\ (EventNow(i) # Event0(i) /\ TypeOf(Event0(i)) # "EV_EFI_GPT_EVENT") =>
               SameBut(GetItem(EventNow(i), "Event"), GetItem(Event0(i), "Event"),
                       {"DevicePath", "VariableData"})

\* enrich has returned from a log of an event it does not decode, which is
\* as it was, followed by one whose payload it has decoded.
C14_Witness ==
    /\ enr.pc = "returned" /\ Len(enr.libs) = 2
    /\ TypeOf(Event0(1)) = "EV_IPL" /\ EventNow(1) = Event0(1)
    /\ EventNow(2) # Event0(2)

\* event i is a boot-variable event for BootOrder whose VariableData is a
\* well-formed dump, and the loop has been through it
BootOrderTaken(i) ==
    /\ TypeOf(Event0(i)) = "EV_EFI_VARIABLE_BOOT"
    /\ HasDump(Event0(i), "VariableData")
    /\ Contains(GetItem(Event0(i), "Event"), "UnicodeName")
    /\ Payload0(i, "UnicodeName") = DStr("BootOrder")

\* the strings "Boot%04x" of the little-endian u16 values of the blob
BootNames(b) ==
    DList([x \in 1..(Len(b) \div 2) |->
              DStr("Boot" \o Format04x(b[2 * x - 1] + 256 * b[2 * x]))])

\* C16: what enrich makes of a BootOrder variable depends on the blob only:
\* a blob of even length becomes the list of the "Boot%04x" strings of its
\* little-endian u16 values, and a blob of odd length is a decode error,
\* whatever else the event carries.
C16_BootOrderByBlob ==
    \A i \in Taken : BootOrderTaken(i) =>
        LET b == fromhex(Payload0(i, "VariableData")).value IN
        IF Len(b) % 2 = 0
        THEN ~RaisedAt(i) /\ PayloadNow(i, "VariableData") = BootNames(b)
        ELSE RaisedAt(i) /\ enr.by = "getVar"

(***************************************************************************)
(* getKeyDB(b) on a signature database: a concatenation of well-formed     *)
(* EFI_SIGNATURE_LIST records.                                             *)
(***************************************************************************)
MaxLists == 2       \* most signature lists in a database

\* the records: SignatureHeaderSize, SignatureSize, number of signatures
ListShapes == [headersize : {0, 8, 16}, size : {16, 17}, n : {0, 1, 2}]

RECURSIVE Database(_)
Database(shapes) ==
    IF Len(shapes) = 0 THEN <<>>
    ELSE SignatureList(shapes[1].headersize, shapes[1].size, shapes[1].n)
         \o Database(Tail(shapes))

InitKeyDB ==
    /\ \E shapes \in SeqsUpTo(ListShapes, MaxLists) :
           dec = [pc |-> "run", shapes |-> shapes, b |-> Database(shapes),
                  start |-> 0, starts |-> <<>>, keylists |-> <<>>,
                  exc |-> "", libfailed |-> FALSE]
    /\ tree = AcceptAll
    /\ heap = <<>>
    /\ calls = NoCalls
    /\ registry = <<>>
    /\ drv = NoDrv
    /\ conv = NoConv
    /\ enr = NoEnr

\* One iteration of the while loop of getKeyDB; guid says whether
\* efi_guid_to_str succeeds in it.
KeyDBIteration(guid) ==
    /\ dec.pc = "run"
    /\ dec.start < Len(dec.b)
    /\ LET it == getKeyDB_iteration([dp |-> TRUE, guid |-> guid], dec.b, dec.start) IN
       dec' = IF it.exc # ""
              THEN [dec EXCEPT !.pc = "raised", !.exc = it.exc,
                               !.starts = Append(@, dec.start),
                               !.libfailed = ~guid]
              ELSE [dec EXCEPT !.start = it.start,
                               !.starts = Append(@, dec.start),
                               !.keylists = Append(@, it.keylist)]
    /\ UNCHANGED <<tree, heap, calls, registry, drv, conv, enr>>

\* return keylists
KeyDBReturn ==
    /\ dec.pc = "run"
    /\ dec.start >= Len(dec.b)
    /\ dec' = [dec EXCEPT !.pc = "returned"]
    /\ UNCHANGED <<tree, heap, calls, registry, drv, conv, enr>>

NextKeyDB ==
    \/ \E guid \in BOOLEAN : KeyDBIteration(guid)
    \/ KeyDBReturn

SpecKeyDB == InitKeyDB /\ [][NextKeyDB]_vars

\* the length of a record, and the offset of the i-th record of the database
ListSize(shape) == 28 + shape.headersize + shape.n * shape.size

RECURSIVE OffsetOf(_, _)
OffsetOf(shapes, i) ==
    IF i = 1 THEN 0 ELSE OffsetOf(shapes, i - 1) + ListSize(shapes[i - 1])

\* the signatures of the i-th record: the entries that follow its header
SignaturesOf(shapes, i) ==
    DList([k \in 1..shapes[i].n |->
        DDict(<<Item("SignatureOwner", [t |-> "guid", v |-> Repeat(16 * k, 16)]),
                Item("SignatureData",
                     hex(SubSeq(SignatureData(k, shapes[i].size), 17, shapes[i].size)))>>)])

\* C15: of a database of n well-formed signature lists, whatever their
\* header sizes, getKeyDB returns n lists; it reads the i-th at the offset
\* that is the sum of the list sizes before it, takes its signatures from
\* behind its header, and has consumed the whole input when it returns.
C15_KeyDBReadsEveryList ==
    (dec.pc \in {"returned", "raised"} /\ ~dec.libfailed) =>
        /\ dec.pc = "returned"
        /\ Len(dec.keylists) = Len(dec.shapes)
        /\ \A i \in 1..Len(dec.shapes) :
               /\ dec.starts[i] = OffsetOf(dec.shapes, i)
               /\ GetItem(dec.keylists[i], "Keys") = SignaturesOf(dec.shapes, i)
        /\ dec.start = Len(dec.b)

(***************************************************************************)
(* tests.py: one test applied to one subject.  The test is constructed,    *)
(* the Globals hold an empty list under the accumulator names k and m, and *)
(* test.why_not(globals, subject) is one step.                             *)
(***************************************************************************)
MaxDigests == 2

\* the good_digests_list the DigestTests are constructed from
GoodDigestsList ==
    <<[alg |-> "sha256", hash |-> "good"], [alg |-> "sha256", hash |-> "good2"],
      [alg |-> "sha1", hash |-> "good1"]>>

DigestTests ==
    {DigestTest(GoodDigestsList, NoTest),
     DigestTest(GoodDigestsList, RejectAll(<<Txt("no")>>)),
     DigestTest(GoodDigestsList, StringEqual("x"))}

Digest(alg, hash) ==
    DDict(<<Item("AlgorithmId", DStr(alg)), Item("Digest", DStr(hash))>>)

\* entries of a Digests list: approved, not approved, of an algorithm no
\* good digest was given for, and malformed ones
DigestEntries ==
    {Digest("sha256", "good"), Digest("sha256", "good2"), Digest("sha256", "bad"),
     Digest("sha1", "good"), Digest("md5", "good"),
     DStr("junk"),
     DDict(<<Item("AlgorithmId", DStr("md5"))>>),
     DDict(<<Item("Digest", DStr("good"))>>),
     DDict(<<Item("AlgorithmId", DInt(4)), Item("Digest", DStr("good"))>>),
     DDict(<<Item("AlgorithmId", DStr("sha256")), Item("Digest", DInt(4))>>)}

DigestSubjects ==
    {DDict(<<Item("Digests", DList(l))>>) : l \in SeqsUpTo(DigestEntries, MaxDigests)}
        \cup {DStr("x"), DDict(<<>>), DDict(<<Item("Digests", DStr("x"))>>)}

UnitScope == ("k" :> DRef(<<1, 1>>)) @@ ("m" :> DRef(<<1, 2>>))
UnitHeap == (<<1, 1>> :> <<>>) @@ (<<1, 2>> :> <<>>)

UnitCall(subject) ==
    [pc |-> "run", idx |-> 1, kind |-> "unit", subject |-> subject,
     scope |-> UnitScope, visits |-> <<>>, reason |-> Pass, exc |-> ""]

InitUnit(cases) ==
    /\ \E case \in cases :
           /\ tree = case.test
           /\ calls = (1 :> UnitCall(case.subject))
    /\ heap = UnitHeap
    /\ registry = <<>>
    /\ drv = NoDrv
    /\ conv = NoConv
    /\ enr = NoEnr
    /\ dec = NoDec

\* reason = tree.why_not(globals, subject)
Apply(c) ==
    /\ calls[c].pc = "run"
    /\ LET r == why_not(tree, EvalSt(c), calls[c].subject) IN
       /\ calls' = [calls EXCEPT ![c].scope = r.st.g, ![c].visits = r.st.visits,
                                 ![c].reason = r.reason, ![c].exc = r.exc,
                                 ![c].pc = IF r.exc # "" THEN "raised" ELSE "done"]
       /\ heap' = r.st.h
    /\ UNCHANGED <<tree, registry, drv, conv, enr, dec>>

NextUnit == \E c \in DOMAIN calls : Apply(c)

DigestCases == [test : DigestTests, subject : DigestSubjects]

SpecDigest == InitUnit(DigestCases) /\ [][NextUnit]_vars

\* the call has returned from tree.why_not
Applied == calls[1].pc = "done"

\* the entries of the subject's Digests list
DigestsOf(subject) == GetItem(subject, "Digests").v

HasDigests(subject) ==
    IsDict(subject) /\ HasKey(subject, "Digests") /\ GetItem(subject, "Digests").t = "list"

\* the entry is a mapping with a string AlgorithmId and a string Digest
IsDigestPair(entry) ==
    /\ IsDict(entry)
    /\ HasKey(entry, "AlgorithmId") /\ GetItem(entry, "AlgorithmId").t = "str"
    /\ HasKey(entry, "Digest") /\ GetItem(entry, "Digest").t = "str"

\* the entry's algorithm is one a good digest was given for
Declared(entry) ==
    /\ IsDict(entry) /\ HasKey(entry, "AlgorithmId")
    /\ \E i \in 1..Len(GoodDigestsList) :
           GetItem(entry, "AlgorithmId") = DStr(GoodDigestsList[i].alg)

\* the entry's algorithm and hash are those of one given good digest
Approved(entry) ==
    /\ IsDigestPair(entry)
    /\ \E i \in 1..Len(GoodDigestsList) :
           /\ GetItem(entry, "AlgorithmId") = DStr(GoodDigestsList[i].alg)
           /\ GetItem(entry, "Digest") = DStr(GoodDigestsList[i].hash)

\* the reason names the approved set: every algorithm and hash given
NamesApprovedSet(reason) ==
    /\ Len(reason) = 2
    /\ reason[1] = Txt("has no digest approved by")
    /\ reason[2].t = "good_digests"
    /\ \A i \in 1..Len(GoodDigestsList) :
           /\ GoodDigestsList[i].alg \in DOMAIN reason[2].v
           /\ GoodDigestsList[i].hash \in reason[2].v[GoodDigestsList[i].alg]

NoFallback == tree.kind = "DigestTest" /\ tree.or_else = NoTest

\* C17 (as stated): a DigestTest without fallback applied to a mapping with
\* a Digests list passes exactly when some entry, wherever it stands, has a
\* declared algorithm and an approved hash, and fails with the reason naming
\* the approved set otherwise; entries of an undeclared algorithm are never
\* the failure.
C17_AnyEntryWhereverItStands ==
    (Applied /\ NoFallback /\ HasDigests(calls[1].subject)) =>
        LET entries == DigestsOf(calls[1].subject) IN
        IF \E i \in 1..Len(entries) : Approved(entries[i])
        THEN calls[1].reason = Pass
        ELSE NamesApprovedSet(calls[1].reason)

\* the entries that stand before the first approved one; all of them when
\* none is approved
Examined(entries) ==
    {i \in 1..Len(entries) : \A j \in 1..i : ~Approved(entries[j])}

\* C17 (amended): when every entry up to the first approved one is a mapping
\* with a string AlgorithmId and a string Digest, a DigestTest without
\* fallback passes exactly when some entry has a declared algorithm and an
\* approved hash, and fails with the reason naming the approved set
\* otherwise; a malformed entry met before an approved one is the failure.
C17_AnyEntryAfterWellFormedOnes ==
    (Applied /\ NoFallback /\ HasDigests(calls[1].subject)) =>
        LET entries == DigestsOf(calls[1].subject) IN
        IF \A i \in Examined(entries) : IsDigestPair(entries[i])
        THEN IF \E i \in 1..Len(entries) : Approved(entries[i])
             THEN calls[1].reason = Pass
             ELSE NamesApprovedSet(calls[1].reason)
        ELSE calls[1].reason \notin {Pass} /\ ~NamesApprovedSet(calls[1].reason)

\* an approved entry standing after an entry of an undeclared algorithm
C17_Witness ==
    /\ Applied /\ NoFallback /\ HasDigests(calls[1].subject)
    /\ LET entries == DigestsOf(calls[1].subject) IN
       /\ Len(entries) = 2
       /\ IsDigestPair(entries[1]) /\ ~Declared(entries[1])
       /\ Approved(entries[2])
    /\ calls[1].reason = Pass

(***************************************************************************)
(* tests.py: Dispatcher, Or and And applied to one subject.  Their         *)
(* sub-tests are tests that read the subject and tests that append it to   *)
(* the list the Globals hold under k or under m.                           *)
(***************************************************************************)
Appender(field_name) == DelayedField(<<"k", "m">>, field_name)

SubTests ==
    {RejectAll(<<Txt("no")>>), StringEqual("x"), IntEqual(1),
     Appender("k"), Appender("m")}

\* the evaluation state every application starts in
UnitSt == [g |-> UnitScope, h |-> UnitHeap, me |-> 1, visits |-> <<>>]

\* d = Dispatcher(('PCRIndex', 'EventType')); d.set((0, 'A'), t1);
\* d.set((0, 'B'), t2)
Dispatchers ==
    {Dispatcher(<<"PCRIndex", "EventType">>,
                <<KeyTest(<<DInt(0), DStr("A")>>, t1),
                  KeyTest(<<DInt(0), DStr("B")>>, t2)>>) : t1, t2 \in SubTests}

NoField == [t |-> "absent"]

KeyValues == {DInt(0), DInt(1), DStr("A"), DStr("B"), DList(<<>>), NoField}

DispatchSubject(pcr, type) ==
    DDict((IF pcr = NoField THEN <<>> ELSE <<Item("PCRIndex", pcr)>>)
          \o (IF type = NoField THEN <<>> ELSE <<Item("EventType", type)>>))

DispatchSubjects ==
    {DispatchSubject(pcr, type) : pcr, type \in KeyValues} \cup {DStr("x"), DInt(1)}

DispatchCases == [test : Dispatchers, subject : DispatchSubjects]

SpecDispatch == InitUnit(DispatchCases) /\ [][NextUnit]_vars

\* the call is over: why_not returned or raised
Over == calls[1].pc \in {"done", "raised"}

\* the call left the Globals and the lists they hold as they were
NothingWritten == calls[1].scope = UnitScope /\ heap = UnitHeap /\ calls[1].visits = <<>>

\* the call's outcome is that of test applied to the subject
SameAs(test) ==
    LET r == why_not(test, UnitSt, calls[1].subject) IN
    /\ calls[1].reason = r.reason
    /\ calls[1].exc = r.exc
    /\ calls[1].scope = r.st.g /\ heap = r.st.h /\ calls[1].visits = r.st.visits

\* the registered tests whose key tuple is that of the subject
Registered(self, subject) ==
    {i \in 1..Len(self.tests) :
        \A n \in 1..Len(self.key_names) :
            self.tests[i].key[n] = GetItem(subject, self.key_names[n])}

\* C18: a Dispatcher applied to a subject that is not a mapping or lacks a
\* key field fails; applied to a mapping whose tuple of key-field values has
\* no registered test it fails with an 'unexpected combination' reason;
\* otherwise its result is that of the registered test applied to the whole
\* subject, and no other registered test is evaluated.
C18_DispatcherDelegates ==
    (Over /\ tree.kind = "Dispatcher") =>
        LET subject == calls[1].subject IN
        IF ~IsDict(subject) \/ MissingKey(tree, subject) # 0
        THEN calls[1].pc = "done" /\ calls[1].reason # Pass /\ NothingWritten
        ELSE IF Registered(tree, subject) = {}
        THEN /\ calls[1].pc = "done" /\ NothingWritten
             /\ Len(calls[1].reason) >= 2
             /\ calls[1].reason[1] = Txt("has unexpected")
             /\ calls[1].reason[2] = Txt("combination")
        ELSE \E i \in Registered(tree, subject) : SameAs(tree.tests[i].test)

MaxTests == 3

PlainSubjects == {DStr("x"), DStr("y"), DInt(1)}

OrCases ==
    [test : {Or(tests) : tests \in SeqsUpTo(SubTests, MaxTests)}, subject : PlainSubjects]

SpecOr == InitUnit(OrCases) /\ [][NextUnit]_vars

AndCases ==
    [test : {And(tests) : tests \in SeqsUpTo(SubTests, MaxTests)}, subject : PlainSubjects]

SpecAnd == InitUnit(AndCases) /\ [][NextUnit]_vars

\* the outcome of the i-th sub-test applied on its own to the subject
Alone(i) == why_not(tree.tests[i], UnitSt, calls[1].subject)

\* the sub-tests that pass the subject
Passing == {i \in 1..Len(tree.tests) : Alone(i).reason = Pass}

First(S) == CHOOSE i \in S : \A j \in S : i <= j

\* the subject was appended once to the list under the name for each of
\* the given sub-tests that is an appender of the name, and the appenders
\* were entered in the order in which they stand
WrittenBy(evaluated) ==
    LET appenders == {i \in evaluated : tree.tests[i].kind = "DelayedField"}
        Count(name) == Cardinality({i \in appenders : tree.tests[i].field_name = name})
    IN  /\ calls[1].scope = UnitScope
        /\ heap = [id \in DOMAIN UnitHeap |->
                      [n \in 1..Count(IF id = <<1, 1>> THEN "k" ELSE "m") |->
                          calls[1].subject]]
        /\ Len(calls[1].visits) = Cardinality(appenders)
        /\ \A i, j \in appenders :
               i <= j =>
                   calls[1].visits[Cardinality({a \in appenders : a <= i})].name
                       = tree.tests[i].field_name

\* C19: Or evaluates its sub-tests in order and stops at the first that
\* passes: it passes iff some sub-test passes, and then only the sub-tests
\* up to the first passing one were evaluated and wrote to the scope; when
\* all fail the reason is the bracketed comma-separated list of all the
\* sub-reasons in order; with no sub-tests it fails with the fixed reason.
C19_OrShortCircuits ==
    (Over /\ tree.kind = "Or") =>
        /\ calls[1].pc = "done"
        /\ IF Len(tree.tests) = 0
           THEN /\ calls[1].reason = <<Txt("does not pass empty disjunction")>>
                /\ NothingWritten
           ELSE IF Passing = {}
           THEN /\ calls[1].reason =
                       <<Txt("[")>>
                       \o Join([i \in 1..Len(tree.tests) |-> Alone(i).reason])
                       \o <<Txt("]")>>
                /\ WrittenBy(1..Len(tree.tests))
           ELSE /\ calls[1].reason = Pass
                /\ WrittenBy(1..First(Passing))

\* an Or that passed at its second sub-test, an appender, with another
\* appender standing after it
C19_Witness ==
    /\ Over /\ tree.kind = "Or" /\ Len(tree.tests) = 3
    /\ Passing # {} /\ First(Passing) = 2
    /\ tree.tests[2] = Appender("k") /\ tree.tests[3] = Appender("m")
    /\ calls[1].reason = Pass
    /\ heap[<<1, 1>>] = <<calls[1].subject>> /\ heap[<<1, 2>>] = <<>>

\* the sub-tests that fail the subject
Failing == {i \in 1..Len(tree.tests) : Alone(i).reason # Pass}

\* C20: And evaluates its sub-tests in order and stops at the first that
\* fails, returning that sub-test's reason unchanged: only the sub-tests up
\* to the first failing one were evaluated and wrote to the scope; it
\* passes iff every sub-test passes, and with no sub-tests it passes.
C20_AndShortCircuits ==
    (Over /\ tree.kind = "And") =>
        /\ calls[1].pc = "done"
        /\ IF Failing = {}
           THEN /\ calls[1].reason = Pass
                /\ WrittenBy(1..Len(tree.tests))
           ELSE /\ calls[1].reason = Alone(First(Failing)).reason
                /\ calls[1].reason # Pass
                /\ WrittenBy(1..First(Failing))

\* an And that failed at its second sub-test, after an appender and before
\* another appender
C20_Witness ==
    /\ Over /\ tree.kind = "And" /\ Len(tree.tests) = 3
    /\ tree.tests[1] = Appender("k") /\ Failing # {} /\ First(Failing) = 2
    /\ tree.tests[3] = Appender("m")
    /\ calls[1].reason = Alone(2).reason
    /\ heap[<<1, 1>>] = <<calls[1].subject>> /\ heap[<<1, 2>>] = <<>>

(***************************************************************************)
(* tests.py: the delay initializer run on the Globals a previous           *)
(* evaluation left behind.                                                 *)
(***************************************************************************)
\* the lists the previous evaluation left: one it appended to, one empty
PriorHeap == (<<0, 1>> :> <<DStr("old")>>) @@ (<<0, 2>> :> <<>>)

PriorValues == {DInt(5), DRef(<<0, 1>>), DRef(<<0, 2>>)}

\* the Globals the previous evaluation left: any of k, m and x holding an
\* integer or one of its lists
PriorScopes ==
    UNION {[names -> PriorValues] : names \in SUBSET {"k", "m", "x"}}

\* the test DelayToFields applies to the accumulated lists: every value
\* accumulated under k is 'new'
OnlyNew == FieldTest("k", IterateTest(StringEqual("new"), FALSE), TRUE)

Evaluation ==
    And(<<DelayInitializer(<<"k", "m">>), Appender("k"),
          DelayToFields(OnlyNew, <<"k", "m">>)>>)

Initializers ==
    {DelayInitializer(<<"k">>), DelayInitializer(<<"k", "m">>),
     DelayInitializer(<<"m", "k">>)}

\* scope0 keeps the Globals the call was handed
ReuseCall(subject, scope) ==
    [pc |-> "run", idx |-> 1, kind |-> "unit", subject |-> subject,
     scope |-> scope, scope0 |-> scope, visits |-> <<>>, reason |-> Pass, exc |-> ""]

InitReuse ==
    /\ tree \in Initializers \cup {Evaluation}
    /\ \E subject \in {DStr("new"), DInt(1)}, scope \in PriorScopes :
           calls = (1 :> ReuseCall(subject, scope))
    /\ heap = PriorHeap
    /\ registry = <<>>
    /\ drv = NoDrv
    /\ conv = NoConv
    /\ enr = NoEnr
    /\ dec = NoDec

SpecReuse == InitReuse /\ [][NextUnit]_vars

\* the accumulator names the tree's initializer resets
Accumulators ==
    LET delayer == IF tree.kind = "And" THEN tree.tests[1].delayer ELSE tree.delayer
    IN  {delayer[i] : i \in 1..Len(delayer)}

\* what the test DelayToFields applies makes of the values this evaluation
\* accumulated and of nothing else
OnThisEvaluation ==
    why_not(OnlyNew, UnitSt,
            DDict(<<Item("k", DList(<<calls[1].subject>>)), Item("m", DList(<<>>))>>))

\* C21: the delay initializer run on Globals with arbitrary prior contents
\* leaves under every named accumulator a new list, empty and its own, and
\* leaves every other variable, and every list of the previous evaluation,
\* as it was; an evaluation that reuses the Globals accumulates and tests
\* only its own values.
C21_InitializerResets ==
    Over =>
        /\ calls[1].pc = "done"
        /\ DOMAIN calls[1].scope = DOMAIN calls[1].scope0 \cup Accumulators
        /\ \A name \in DOMAIN calls[1].scope0 \ Accumulators :
               calls[1].scope[name] = calls[1].scope0[name]
        /\ \A id \in DOMAIN PriorHeap : heap[id] = PriorHeap[id]
        /\ \A name \in Accumulators :
               /\ calls[1].scope[name].t = "ref"
               /\ calls[1].scope[name].v \notin DOMAIN PriorHeap
               /\ \A other \in DOMAIN calls[1].scope \ {name} :
                      calls[1].scope[other] # calls[1].scope[name]
        /\ IF tree \in Initializers
           THEN /\ calls[1].reason = Pass
                /\ \A name \in Accumulators : heap[calls[1].scope[name].v] = <<>>
           ELSE /\ heap[calls[1].scope["k"].v] = <<calls[1].subject>>
                /\ heap[calls[1].scope["m"].v] = <<>>
                /\ calls[1].reason = OnThisEvaluation.reason

\* an evaluation that was handed the list of the previous evaluation under
\* k and under x, and passed
C21_Witness ==
    /\ Over /\ tree = Evaluation
    /\ "k" \in DOMAIN calls[1].scope0 /\ calls[1].scope0["k"] = DRef(<<0, 1>>)
    /\ "x" \in DOMAIN calls[1].scope0 /\ calls[1].scope0["x"] = DRef(<<0, 1>>)
    /\ calls[1].subject = DStr("new")
    /\ calls[1].reason = Pass
    /\ heap[<<0, 1>>] = <<DStr("old")>>

(***************************************************************************)
(* tests.py: DigestTest constructed with an or_else test.                  *)
(***************************************************************************)
FallbackCases ==
    [test : {DigestTest(GoodDigestsList, or_else) :
                or_else \in {Appender("k"), RejectAll(<<Txt("no")>>), AcceptAll}},
     subject : DigestSubjects]

SpecFallback == InitUnit(FallbackCases) /\ [][NextUnit]_vars

\* the outcome of or_else applied on its own to the subject
OrElse == why_not(tree.or_else, UnitSt, calls[1].subject)

\* or_else was evaluated once, and the result is its result: a pass when
\* it passes, else its reason followed by ' and has no digest approved by'
\* and the approved set
FellBack ==
    /\ calls[1].scope = OrElse.st.g /\ heap = OrElse.st.h
    /\ calls[1].visits = OrElse.st.visits
    /\ IF OrElse.reason = Pass THEN calls[1].reason = Pass
       ELSE LET n == Len(OrElse.reason) IN
            /\ Len(calls[1].reason) = n + 3
            /\ SubSeq(calls[1].reason, 1, n) = OrElse.reason
            /\ calls[1].reason[n + 1] = Txt(" and")
            /\ NamesApprovedSet(SubSeq(calls[1].reason, n + 2, n + 3))

\* C22 (as stated): or_else is evaluated exactly when no entry of Digests
\* is approved, so that an appender given as or_else records exactly the
\* subjects without approved digest; when none is approved the DigestTest
\* passes iff or_else passes, and fails with or_else's reason followed by
\* ' and has no digest approved by' and the approved set.
C22_FallbackWhenNoneApproved ==
    (Applied /\ tree.kind = "DigestTest" /\ tree.or_else # NoTest
        /\ HasDigests(calls[1].subject)) =>
        LET entries == DigestsOf(calls[1].subject) IN
        IF \E i \in 1..Len(entries) : Approved(entries[i])
        THEN NothingWritten
        ELSE FellBack

\* C22 (amended): when every entry of Digests up to the first approved one
\* is a mapping with a string AlgorithmId and a string Digest, or_else is
\* evaluated exactly when no entry is approved, and then the DigestTest
\* passes iff or_else passes and fails with or_else's reason followed by
\* ' and has no digest approved by' and the approved set; when a malformed
\* entry is met first, or_else is not evaluated and the DigestTest fails.
C22_FallbackAfterWellFormedOnes ==
    (Applied /\ tree.kind = "DigestTest" /\ tree.or_else # NoTest
        /\ HasDigests(calls[1].subject)) =>
        LET entries == DigestsOf(calls[1].subject) IN
        IF \E i \in Examined(entries) : ~IsDigestPair(entries[i])
        THEN NothingWritten /\ calls[1].reason # Pass
        ELSE IF \E i \in 1..Len(entries) : Approved(entries[i])
        THEN NothingWritten /\ calls[1].reason = Pass
        ELSE FellBack

\* an appender given as or_else recorded a subject whose two digests are
\* well-formed and not approved
C22_Witness ==
    /\ Applied /\ tree.kind = "DigestTest" /\ tree.or_else = Appender("k")
    /\ HasDigests(calls[1].subject)
    /\ LET entries == DigestsOf(calls[1].subject) IN
       /\ Len(entries) = 2
       /\ \A i \in 1..2 : IsDigestPair(entries[i]) /\ ~Approved(entries[i])
    /\ heap[<<1, 1>>] = <<calls[1].subject>>
    /\ calls[1].reason = Pass

(***************************************************************************)
(* tests.py: IterateTest applied to one subject.                           *)
(***************************************************************************)
MaxElts == 3

\* element tests: one that reads the element, one that appends it to the
\* list under k, one that appends it and then reads it, one that reads it
\* and appends it when it passes
EltTests ==
    {StringEqual("x"), Appender("k"),
     And(<<Appender("k"), StringEqual("x")>>),
     And(<<StringEqual("x"), Appender("k")>>)}

IterateSubjects ==
    {DList(l) : l \in SeqsUpTo(PlainSubjects, MaxElts)}
        \cup {DStr("x"), DInt(1), DDict(<<>>), DNone}

IterateCases ==
    [test : {IterateTest(elt_test, show_elt) :
                elt_test \in EltTests, show_elt \in BOOLEAN},
     subject : IterateSubjects]

SpecIterate == InitUnit(IterateCases) /\ [][NextUnit]_vars

\* the outcome of elt_test applied on its own to the element
EltAlone(elt) == why_not(tree.elt_test, UnitSt, elt)

\* the elements that fail elt_test
FailingElts ==
    {i \in 1..Len(calls[1].subject.v) : EltAlone(calls[1].subject.v[i]).reason # Pass}

\* the list under k holds, in order, what elt_test appends for each of the
\* first n elements, and nothing else was written
WrittenForFirst(n) ==
    /\ calls[1].scope = UnitScope
    /\ heap[<<1, 2>>] = <<>>
    /\ heap[<<1, 1>>] =
           SelectSeq(SubSeq(calls[1].subject.v, 1, n),
                     LAMBDA elt : EltAlone(elt).st.h[<<1, 1>>] = <<elt>>)

\* C23: IterateTest fails a subject that is not a list; otherwise it
\* applies elt_test to the elements in order and stops at the first one that
\* fails, so that no later element is evaluated or written to the scope; it
\* passes iff every element passes; the reason of a failure is elt_test's
\* reason after the element's rendering when show_elt is set and after the
\* element's index in brackets otherwise.
C23_IterateStopsAtFirstFailure ==
    (Over /\ tree.kind = "IterateTest") =>
        /\ calls[1].pc = "done"
        /\ IF calls[1].subject.t # "list"
           THEN calls[1].reason # Pass /\ NothingWritten
           ELSE IF FailingElts = {}
           THEN calls[1].reason = Pass /\ WrittenForFirst(Len(calls[1].subject.v))
           ELSE LET idx == First(FailingElts)
                    elt == calls[1].subject.v[idx]
                IN  /\ WrittenForFirst(idx)
                    /\ calls[1].reason =
                           (IF tree.show_elt
                            THEN <<[t |-> "repr", v |-> elt]>>
                            ELSE <<Txt("["), [t |-> "repr", v |-> DInt(idx - 1)], Txt("]")>>)
                           \o EltAlone(elt).reason

\* three elements of which the second is the first to fail, under an
\* element test that appends every element it is applied to
C23_Witness ==
    /\ Over /\ tree.kind = "IterateTest"
    /\ tree.elt_test = And(<<Appender("k"), StringEqual("x")>>)
    /\ calls[1].subject.t = "list" /\ Len(calls[1].subject.v) = 3
    /\ FailingElts # {} /\ First(FailingElts) = 2
    /\ heap[<<1, 1>>] = SubSeq(calls[1].subject.v, 1, 2)
    /\ calls[1].reason # Pass

(***************************************************************************)
(* tests.py: KeySubset applied to a key database as getKeyDB returns it:   *)
(* a list of signature lists, each a mapping with a SignatureType and the  *)
(* list Keys of mappings with SignatureOwner and SignatureData.            *)
(***************************************************************************)
MaxKeys == 2

Sig(owner, data) == [owner |-> owner, data |-> data]

\* the approved sets: none, one key, two keys that differ in owner and data
ApprovedSets ==
    {<<>>, <<Sig("o1", "d1")>>, <<Sig("o1", "d1"), Sig("o2", "d2")>>}

Key(sig) ==
    DDict(<<Item("SignatureOwner", DStr(sig.owner)), Item("SignatureData", DStr(sig.data))>>)

KeyLists ==
    {DDict(<<Item("SignatureType", DStr(type)), Item("Keys", DList(keys))>>) :
        type \in {"T1", "T2"},
        keys \in SeqsUpTo({Key(sig) : sig \in [owner : {"o1", "o2"}, data : {"d1", "d2"}]},
                          MaxKeys)}

\* the databases of no, one and two signature lists
KeyDatabases ==
    {DList(<<>>)} \cup {DList(<<l>>) : l \in KeyLists}
        \cup {DList(<<l1, l2>>) : l1, l2 \in KeyLists}

\* approved keeps the approved keys the KeySubset was constructed with
KeyCall(subject, approved) ==
    [pc |-> "run", idx |-> 1, kind |-> "unit", subject |-> subject,
     approved |-> approved, scope |-> UnitScope, visits |-> <<>>,
     reason |-> Pass, exc |-> ""]

InitKeySubset ==
    /\ \E approved \in ApprovedSets, subject \in KeyDatabases :
           /\ tree = KeySubset("T1", approved)
           /\ calls = (1 :> KeyCall(subject, approved))
    /\ heap = UnitHeap
    /\ registry = <<>>
    /\ drv = NoDrv
    /\ conv = NoConv
    /\ enr = NoEnr
    /\ dec = NoDec

SpecKeySubset == InitKeySubset /\ [][NextUnit]_vars

\* the key equals some approved key in both owner and data
ApprovedKey(key) ==
    \E i \in 1..Len(calls[1].approved) :
        /\ GetItem(key, "SignatureOwner") = DStr(calls[1].approved[i].owner)
        /\ GetItem(key, "SignatureData") = DStr(calls[1].approved[i].data)

KeysOf(list) == GetItem(list, "Keys").v

\* C24: KeySubset(type, approved) passes a key database iff every
\* signature list in it has the declared SignatureType and every key of
\* every list equals some approved key in both owner and data; so a
\* database without lists and a list without keys pass, and with no
\* approved key every list holding a key fails.
C24_KeySubsetIffAllApproved ==
    Over =>
        LET lists == calls[1].subject.v IN
        /\ calls[1].pc = "done"
        /\ NothingWritten
        /\ calls[1].reason = Pass <=>
               \A i \in 1..Len(lists) :
                   /\ GetItem(lists[i], "SignatureType") = DStr("T1")
                   /\ \A j \in 1..Len(KeysOf(lists[i])) : ApprovedKey(KeysOf(lists[i])[j])

\* a database of two lists of two keys each, all approved, the second list
\* holding the second approved key
C24_Witness ==
    /\ Over /\ calls[1].reason = Pass
    /\ Len(calls[1].approved) = 2
    /\ Len(calls[1].subject.v) = 2
    /\ \A i \in 1..2 : Len(KeysOf(calls[1].subject.v[i])) = 2
    /\ KeysOf(calls[1].subject.v[2])[2] = Key(Sig("o2", "d2"))

(***************************************************************************)
(* getKeyDB(b) on malformed input: well-formed signature lists followed by *)
(* a last record whose fields contradict each other or whose bytes end     *)
(* early.                                                                  *)
(***************************************************************************)
MaxRecords == 2     \* most records in an input

\* what is wrong with the last record: nothing; a list size below 28; a
\* header size beyond the list size; a list size that leaves a remainder;
\* a signature size of zero
RecordKinds == {"ok", "small", "header", "remainder", "zero"}

\* the numbers of bytes missing at the end of the input
Cuts == {0, 1, 20}

LastRecords == [kind : RecordKinds, size : {16, 17}, n : {0, 1, 2}, cut : Cuts]

\* the bytes of the last record
LastRecord(rec) ==
    LET listsize == CASE rec.kind = "small" -> 27
                      [] rec.kind = "remainder" -> 28 + rec.n * rec.size + 1
                      [] OTHER -> 28 + rec.n * rec.size
        headersize == IF rec.kind = "header" THEN rec.n * rec.size + 8 ELSE 0
        signaturesize == IF rec.kind = "zero" THEN 0 ELSE rec.size
        whole == Repeat(1, 16) \o to_bytes(listsize, 4) \o to_bytes(headersize, 4)
                 \o to_bytes(signaturesize, 4) \o Signatures(rec.n, rec.size)
    IN  SubSeq(whole, 1, Len(whole) - rec.cut)

InitMalformed ==
    /\ \E shapes \in SeqsUpTo([headersize : {0}, size : {16, 17}, n : {0, 1, 2}],
                                MaxRecords - 1),
          last \in LastRecords :
           dec = [pc |-> "run", shapes |-> shapes, last |-> last,
                  b |-> Database(shapes) \o LastRecord(last),
                  start |-> 0, starts |-> <<>>, keylists |-> <<>>,
                  exc |-> "", libfailed |-> FALSE]
    /\ tree = AcceptAll
    /\ heap = <<>>
    /\ calls = NoCalls
    /\ registry = <<>>
    /\ drv = NoDrv
    /\ conv = NoConv
    /\ enr = NoEnr

SpecMalformed == InitMalformed /\ [][NextKeyDB]_vars

\* every iteration started at least 28 bytes after the one before it, and
\* inside the input: there are at most Len(b) / 28 + 1 of them
AdvancesByHeader ==
    /\ \A i \in 1..Len(dec.starts) : dec.starts[i] < Len(dec.b)
    /\ \A i \in 2..Len(dec.starts) : dec.starts[i] >= dec.starts[i - 1] + 28
    /\ dec.pc = "run" => dec.start >= 28 * Len(dec.starts)

\* C25: on every input getKeyDB ends, every iteration advancing the offset
\* by at least the 28 bytes of the record header; and it raises, returning
\* nothing, when the list size minus 28 minus the header size is negative
\* or leaves a remainder when divided by the signature size, when the
\* signature size is zero, and when the bytes of the last record end
\* early.
C25_MalformedInputRaises ==
    /\ AdvancesByHeader
    /\ dec.pc = "returned" => (dec.last.kind = "ok" /\ dec.last.cut = 0)
====
